---- MODULE Spec2Model ----
(***************************************************************************)
(* Fixed-window rate limiter backends of actix-extensible-rate-limit:      *)
(* the in-memory store (backend/memory.rs) and the Redis backend           *)
(* (backend/redis.rs), as state machines over a shared clock.              *)
(*                                                                         *)
(* Time is counted in ticks; TicksPerSec ticks make one second.  A         *)
(* Duration and an Instant are numbers of ticks.                           *)
(*                                                                         *)
(* Callers run concurrently.  Each call touches the shared state in one    *)
(* atomic step (the DashMap entry call under its shard lock, the Redis     *)
(* MULTI/EXEC pipeline); the actions are these steps, in the order the     *)
(* store serializes them.  What a caller does on its own before or after   *)
(* that step takes time: an in-memory request read Instant::now() `age`    *)
(* ticks before its map access, a Redis request reads Instant::now()       *)
(* `delay` ticks after the server ran its pipeline.  A request whose now   *)
(* is older than the now of the request served before it was in flight     *)
(* together with it.                                                       *)
(***************************************************************************)
EXTENDS Integers, Sequences, FiniteSets, TLC

\* ------------------------------------------------------------------ bounds
MaxTime == 3
MaxInterval == 2
MaxAge == 1
MaxDelay == 1
MaxLimit == 2
MaxCount == 3
MaxRollbacks == 2
TicksPerSec == 2
MaxGcInterval == 2
MaxClones == 2
MaxHdrNow == 2
MaxHdrReset == 4002

Keys == {"A", "B"}
Prefixes == {"p:"}
OneKey == {"A"}
Intervals == 0..MaxInterval
Limits == 0..MaxLimit
Ages == 0..MaxAge
Delays == 0..MaxDelay

\* -------------------------------------------------------------- variables
VARIABLES
    backend,   \* which Backend implementation was built ("builder" before
               \* build, "panicked" when build panicked, "dropped" after the
               \* last clone was dropped, "none" where no store is involved,
               \* "both" where each call is made on one of either kind)
    clock,     \* Instant::now()
    map,       \* InMemoryBackend.map: key -> Value, defined on the keys present
    store,     \* the Redis server's keyspace: key -> stored key
    last,      \* the most recent completed call and what it returned
    win,       \* per key: bookkeeping of the current window (bucket generation)
    gc,        \* InMemoryBackend.gc_handle, the sweep task behind it, the clones
    hdr,       \* a SimpleOutput whose seconds_until_reset() is being read
    key_prefix,\* RedisBackend.key_prefix: <<>> is None, <<s>> is Some(s)
    ipk,       \* an address text given to ip_key and what ip_key returned
    mw,        \* one RateLimiterMiddleware::call: its settings and its progress
    pair,      \* what the two backends returned to one call made on both
    tokens     \* the rollback tokens the callers of one key hold, by window

\* what the store, its sweep and its lifecycle leave alone
ext == <<key_prefix, ipk, mw, pair, tokens>>

\* what the calls on a built store leave alone
rest == <<gc, hdr, ext>>

vars == <<backend, clock, map, store, last, win, gc, hdr, key_prefix, ipk, mw, pair, tokens>>

\* ------------------------------------------------------- pure definitions

\* a subtraction that does not saturate
wrapping_sub(a, b) == a - b

\* u64::saturating_sub
saturating_sub(a, b) == IF b >= a THEN 0 ELSE a - b

\* Decision::from_allowed
from_allowed(allowed) == IF allowed THEN "Allowed" ELSE "Denied"

\* struct Value { ttl, count }
Value(ttl, count) == [ttl |-> ttl, count |-> count]

\* an and_modify closure that renews the expiry of an active bucket
and_modify_extend(v, now, expiry) ==
    IF v.ttl > now
    THEN Value(expiry, v.count + 1)
    ELSE Value(expiry, 1)

\* an and_modify closure that takes a bucket expiring right now for active
and_modify_inclusive(v, now, expiry) ==
    IF v.ttl >= now
    THEN Value(v.ttl, v.count + 1)
    ELSE Value(expiry, 1)

\* an and_modify closure that carries the stale count into the new window
and_modify_carry(v, now, expiry) ==
    IF v.ttl > now
    THEN Value(v.ttl, v.count + 1)
    ELSE Value(expiry, v.count + 1)

\* an and_modify closure that loses the increment of an active bucket
and_modify_lost(v, now, expiry) ==
    IF v.ttl > now
    THEN Value(v.ttl, v.count)
    ELSE Value(expiry, 1)

\* the closure given to and_modify in request()
and_modify(v, now, expiry) ==
    IF v.ttl > now
    THEN Value(v.ttl, v.count + 1)
    ELSE Value(expiry, 1)

\* an insert whose bucket is not the one the in-place reset makes
or_insert_with_late(expiry) == Value(expiry + 1, 1)

\* the closure given to or_insert_with in request()
or_insert_with(expiry) == Value(expiry, 1)

\* an entry call that runs two paths on a bucket it finds: the reset and
\* then the increment of the bucket it has just reset
entry_both(m, key, now, expiry) ==
    IF key \in DOMAIN m
    THEN and_modify(and_modify(m[key], now, expiry), now, expiry)
    ELSE or_insert_with(expiry)

\* map.entry(key).and_modify(..).or_insert_with(..): the bucket after the call
entry(m, key, now, expiry) ==
    IF key \in DOMAIN m
    THEN and_modify(m[key], now, expiry)
    ELSE or_insert_with(expiry)

\* which of the three paths of entry() ran
entry_path(m, key, now) ==
    IF key \notin DOMAIN m THEN "insert"
    ELSE IF m[key].ttl > now THEN "incr"
    ELSE "reset"

\* an off-by-one comparison
allow_strict(count, max_requests) == count < max_requests

\* let allow = count <= input.max_requests
allow(count, max_requests) == count <= max_requests

\* an output whose remaining is not clamped at the limit
SimpleOutput_unclamped(max_requests, count, reset) ==
    [limit |-> max_requests,
     remaining |-> IF count > max_requests THEN count - max_requests ELSE max_requests - count,
     reset |-> reset]

\* SimpleOutput { limit, remaining, reset }
SimpleOutput(max_requests, count, reset) ==
    [limit |-> max_requests,
     remaining |-> saturating_sub(max_requests, count),
     reset |-> reset]

\* a rollback closure that takes two off the count
rollback_modify_twice(v) == Value(v.ttl, saturating_sub(v.count, 2))

\* the closure given to and_modify in rollback()
rollback_modify(v) == Value(v.ttl, saturating_sub(v.count, 1))

\* a map that keeps one bucket for all its keys
Put_shared(m, key, v) == [x \in (DOMAIN m) \cup {key} |-> v]

\* the map with key bound to v
Put(m, key, v) == [x \in (DOMAIN m) \cup {key} |-> IF x = key THEN v ELSE m[x]]

\* a remove that leaves the entry in the map
Remove_keep(m, key) == m

\* DashMap::remove
Remove(m, key) == [x \in (DOMAIN m) \ {key} |-> m[x]]

\* a rollback whose entry(..) call inserts a bucket for a missing key
rollback_entry_insert(m, key) ==
    IF key \in DOMAIN m THEN Put(m, key, rollback_modify(m[key]))
    ELSE Put(m, key, Value(0, 0))

\* a rollback that removes the bucket it has emptied
rollback_entry_remove(m, key) ==
    IF key \notin DOMAIN m THEN m
    ELSE IF m[key].count <= 1 THEN Remove(m, key)
    ELSE Put(m, key, rollback_modify(m[key]))

\* map.entry(token).and_modify(..) of InMemoryBackend::rollback, without an
\* or_insert: a missing key stays missing
rollback_entry(m, key) ==
    IF key \in DOMAIN m THEN Put(m, key, rollback_modify(m[key])) ELSE m

\* the largest Instant and the largest Duration, in ticks (a Duration can
\* be longer than the time left until the largest Instant)
InstantMax == 1000000
DurationMax == 2000000
None == -1

\* Instant::checked_add
checked_add(now, d) == IF now + d > InstantMax THEN None ELSE now + d

\* an assert that lets a zero interval through
gc_assert_nothing(interval) == TRUE

\* assert!(interval.as_secs_f64() > 0f64) of garbage_collector
gc_assert(interval) == interval > 0

\* a retain that also drops the bucket that expires one tick after now
retain_early(v, now) == v.ttl > now + 1

\* the predicate of map.retain(|_k, v| v.ttl > now)
retain(v, now) == v.ttl > now

\* ------------------------------------------------- the Redis server side
\* a make_key that sends the caller's key as it is
make_key_bare(prefix, key) == key

\* RedisBackend::make_key: the key sent to the server, prefix ++ key
make_key(prefix, key) ==
    IF prefix = <<>> THEN key ELSE prefix[1] \o key

\* the keys the server can hold
StoredKeys == Keys \cup {p \o k : p \in Prefixes, k \in Keys}

\* A stored key is [has, val, exp]: val is the u63 bit field at offset 0,
\* exp the absolute expiry time, -1 for a key without expiry.
NoKey == [has |-> FALSE, val |-> 0, exp |-> 0]

\* the key as a command sees it at time now: Redis drops a key whose expiry
\* time has passed (now > when) before the command runs
Lookup(ks, now) == IF ks.has /\ ks.exp >= 0 /\ now > ks.exp THEN NoKey ELSE ks

\* BITFIELD key OVERFLOW SAT INCRBY u63 0 delta: creates the key when it is
\* missing; the value saturates at 0 (and at 2^63 - 1, out of reach here)
bitfield_incrby(ks, delta) ==
    LET cur == IF ks.has THEN ks ELSE [has |-> TRUE, val |-> 0, exp |-> -1]
    IN [cur EXCEPT !.val = IF cur.val + delta < 0 THEN 0 ELSE cur.val + delta]

\* EXPIRE key secs without NX: the expiry is set whether or not there is one
expire_always(ks, secs, now) ==
    IF ~ks.has THEN ks
    ELSE IF secs <= 0 THEN NoKey
    ELSE [ks EXCEPT !.exp = now + secs * TicksPerSec]

\* EXPIRE key secs NX at time now: only a key without expiry is touched;
\* an expiry time that is not in the future deletes the key
expire_nx(ks, secs, now) ==
    IF ~ks.has \/ ks.exp >= 0 THEN ks
    ELSE IF secs <= 0 THEN NoKey
    ELSE [ks EXCEPT !.exp = now + secs * TicksPerSec]

\* TTL key at time now, in seconds rounded to the nearest:
\* -2 for a missing key, -1 for a key without expiry
ttl_cmd(ks, now) ==
    IF ~ks.has THEN -2
    ELSE IF ks.exp < 0 THEN -1
    ELSE (2 * (ks.exp - now) + TicksPerSec) \div (2 * TicksPerSec)

\* Duration::as_secs
as_secs(interval) == interval \div TicksPerSec

\* a ttl check that lets every reply through
negative_ttl_never(ttl) == FALSE

\* if ttl < 0 { return Err(Error::NegativeTtl) }
negative_ttl(ttl) == ttl < 0

\* a request whose commands are not one transaction: the BITFIELD of another
\* request runs between this request's BITFIELD and its EXPIRE
request_pipe_torn(ks, interval, now) ==
    expire_nx(bitfield_incrby(bitfield_incrby(Lookup(ks, now), 1), 1),
              as_secs(interval), now)

\* the atomic pipeline of RedisBackend::request: the key after it
request_pipe(ks, interval, now) ==
    expire_nx(bitfield_incrby(Lookup(ks, now), 1), as_secs(interval), now)

\* a rollback pipeline without its EXPIRE
rollback_pipe_noexpire(ks, now) ==
    bitfield_incrby(Lookup(ks, now), -1)

\* a rollback pipeline whose EXPIRE carries XX in place of NX: it expires
\* at once the key that has an expiry
rollback_pipe_xx(ks, now) ==
    LET dec == bitfield_incrby(Lookup(ks, now), -1)
    IN IF dec.has /\ dec.exp >= 0 THEN NoKey ELSE dec

\* a rollback pipeline whose EXPIRE lacks NX
rollback_pipe_always(ks, now) ==
    expire_always(bitfield_incrby(Lookup(ks, now), -1), 0, now)

\* the atomic pipeline of RedisBackend::rollback: the key after it
rollback_pipe(ks, now) ==
    expire_nx(bitfield_incrby(Lookup(ks, now), -1), 0, now)

\* ------------------------------------------------------------ bookkeeping
\* last: the most recent completed call.  For a request: the SimpleOutput
\* and Decision it returned (or err), the count it observed, the path it
\* took (insert, incr, reset), the interval it gave the bucket when it
\* created one, what it replaced on reset or what the remove_key just
\* before it had removed (hadCount, hadTtl), and for the
\* in-memory backend the now it read, for the Redis backend the now at
\* which it handled the reply.  For a rollback: the kind of its
\* token, and when it undid the request just before it (undid) the limit
\* and remaining which that request had returned.
NoLast ==
    [op |-> "none", key |-> "", err |-> "none", decision |-> "none",
     limit |-> 0, remaining |-> 0, reset |-> 0, count |-> 0,
     path |-> "none", kind |-> "none", undid |-> FALSE,
     now |-> 0, interval |-> 0, hadCount |-> 0, hadTtl |-> 0]

NoWin ==
    [reqs |-> 0, rbs |-> 0, matched |-> TRUE, older |-> FALSE,
     counts |-> {}, allowed |-> 0, max_requests |-> -1, overlap |-> FALSE]

\* the window bookkeeping after a request that observed `count`;
\* counts/allowed are kept while no rollback reached the window and
\* every request of it carried the same max_requests
WinRequest(w, created, count, max_requests, concurrent) ==
    LET one == IF allow(count, max_requests) THEN 1 ELSE 0
    IN IF created
       THEN [reqs |-> 1, rbs |-> 0, matched |-> TRUE,
             older |-> (w.older \/ w.reqs > 0),
             counts |-> {count}, allowed |-> one,
             max_requests |-> max_requests, overlap |-> FALSE]
       ELSE IF w.rbs = 0 /\ w.max_requests = max_requests
       THEN [w EXCEPT !.reqs = w.reqs + 1,
                      !.counts = w.counts \cup {count},
                      !.allowed = w.allowed + one,
                      !.overlap = w.overlap \/ concurrent]
       ELSE [w EXCEPT !.reqs = w.reqs + 1,
                      !.counts = {}, !.allowed = 0, !.max_requests = -1,
                      !.overlap = FALSE]

\* the window bookkeeping after a request whose reply was lost
WinLost(w, created) ==
    [reqs |-> IF created THEN 1 ELSE w.reqs + 1,
     rbs |-> IF created THEN 0 ELSE w.rbs,
     matched |-> (created \/ w.matched),
     older |-> IF created THEN (w.older \/ w.reqs > 0) ELSE w.older,
     counts |-> {}, allowed |-> 0, max_requests |-> -1, overlap |-> FALSE]

\* the window bookkeeping after a rollback that reached the bucket
WinRollback(w, kind) ==
    [w EXCEPT !.rbs = w.rbs + 1,
              !.matched = w.matched /\ kind = "cur",
              !.counts = {}, !.allowed = 0, !.max_requests = -1, !.overlap = FALSE]

\* where a rollback token can come from: a request of the current window
\* that was not rolled back yet, a request of an earlier window of the key,
\* or a token that was used before (a RollbackToken is a String, it can be
\* cloned and made up)
TokenKinds == {"cur", "old", "dup"}

TokAvail(w, present, kind) ==
    \/ kind = "cur" /\ present /\ w.matched /\ w.rbs < w.reqs
    \/ kind = "old" /\ (w.older \/ (~present /\ w.reqs > 0))
    \/ kind = "dup"

\* gc: the sweep of an InMemoryBackend.  interval is Builder.gc_interval
\* (None: sweeping disabled), handle says that gc_handle is Some, state is
\* where the spawned task is ("spawned": not polled yet, "retain": inside
\* map.retain, "sleep": awaiting sleep_until, "aborted": cancelled), abort
\* that its cancellation was requested while it was running, now the
\* Instant the current cycle read, todo the keys its retain has not
\* visited yet, removed the keys it removed, clones the number of
\* InMemoryBackend values alive, dropped that one of them was dropped.
NoGc ==
    [interval |-> None, handle |-> FALSE, state |-> "none", abort |-> FALSE,
     now |-> 0, todo |-> {}, removed |-> {}, clones |-> 1, dropped |-> FALSE]

\* hdr: a SimpleOutput.reset, the Instant::now() that seconds_until_reset
\* reads, and what it returned (None before the call); in units of
\* 1 / SubsPerMilli milliseconds
NoHdr == [reset |-> 0, now |-> 0, secs |-> None]

\* pair: the call made on an InMemoryBackend and on a RedisBackend, and for
\* a request the Decision and the remaining each returned
NoResult == [decision |-> "none", remaining |-> 0]
NoPair == [op |-> "none", mem |-> NoResult, redis |-> NoResult]

\* tokens: max_requests is the limit every request of the key carries;
\* held[w] is the number of requests that were Allowed in the w-th window
\* of the key and whose RollbackToken was not given to rollback yet; the
\* current window is the last one
NoTokens == [max_requests |-> 0, held |-> <<>>]

\* ipk before ip_key is given a text, mw where no request is in the middleware
NoIpk == [arg |-> <<>>, res |-> <<>>]
NoMw == [pc |-> "none"]

\* no key prefix, no key builder, no middleware
NoExt ==
    key_prefix = <<>> /\ ipk = NoIpk /\ mw = NoMw /\ pair = NoPair /\ tokens = NoTokens

\* ------------------------------------------------------------------- Init
Init ==
    /\ backend \in {"memory", "redis"}
    /\ clock = 0
    /\ map = [x \in {} |-> Value(0, 0)]
    /\ store = [k \in StoredKeys |-> NoKey]
    /\ last = NoLast
    /\ win = [k \in Keys |-> NoWin]
    /\ gc = NoGc
    /\ hdr = NoHdr
    /\ NoExt

\* ---------------------------------------------------------------- actions

\* time passes
Tick ==
    /\ clock < MaxTime
    /\ clock' = clock + 1
    /\ UNCHANGED <<backend, map, store, last, win, rest>>

\* InMemoryBackend::request: now was read `age` ticks before the atomic
\* map.entry(..) call of this step
MemRequest(k, interval, max_requests, age) ==
    /\ backend = "memory"
    /\ age <= clock
    /\ entry_path(map, k, clock - age) = "incr" => map[k].count < MaxCount
    /\ LET now == clock - age
           expiry == checked_add(now, interval)
           path == entry_path(map, k, now)
           v == entry(map, k, now, expiry)
           out == SimpleOutput(max_requests, v.count, v.ttl)
           concurrent == last.op = "request" /\ last.key = k /\ now < last.now
       IN IF expiry = None
          THEN \* .expect("Interval unexpectedly large") panics before the map access
               /\ last' = [NoLast EXCEPT !.op = "request", !.key = k, !.err = "panic"]
               /\ UNCHANGED <<map, win>>
          ELSE
          /\ map' = Put(map, k, v)
          /\ win' = [win EXCEPT ![k] =
                        WinRequest(win[k], path # "incr", v.count, max_requests, concurrent)]
          /\ last' = [NoLast EXCEPT
                        !.op = "request", !.key = k,
                        !.decision = from_allowed(allow(v.count, max_requests)),
                        !.limit = out.limit, !.remaining = out.remaining, !.reset = out.reset,
                        !.count = v.count, !.path = path,
                        !.undid = (path = "incr" /\ last.op = "rollback" /\ last.undid
                                   /\ last.key = k /\ last.limit = max_requests),
                        !.now = now,
                        !.interval = IF path = "incr" THEN 0 ELSE interval,
                        !.hadCount = IF path = "reset" THEN map[k].count
                                     ELSE IF path = "insert" /\ last.op = "remove_key"
                                             /\ last.key = k
                                     THEN last.hadCount ELSE 0,
                        !.hadTtl = IF path = "reset" THEN map[k].ttl ELSE 0]
    /\ UNCHANGED <<backend, clock, store, rest>>

\* InMemoryBackend::rollback
MemRollback(k, kind) ==
    /\ backend = "memory"
    /\ TokAvail(win[k], k \in DOMAIN map, kind)
    /\ k \in DOMAIN map => win[k].rbs < MaxRollbacks
    /\ map' = rollback_entry(map, k)
    /\ win' = IF k \in DOMAIN map THEN [win EXCEPT ![k] = WinRollback(win[k], kind)] ELSE win
    /\ LET undoes == k \in DOMAIN map /\ kind = "cur"
                     /\ last.op = "request" /\ last.key = k
       IN last' = [NoLast EXCEPT
                  !.op = "rollback", !.key = k, !.kind = kind,
                  !.undid = undoes,
                  !.limit = IF undoes THEN last.limit ELSE 0,
                  !.remaining = IF undoes THEN last.remaining ELSE 0]
    /\ UNCHANGED <<backend, clock, store, rest>>

\* InMemoryBackend::remove_key
MemRemoveKey(k) ==
    /\ backend = "memory"
    /\ map' = Remove(map, k)
    /\ last' = [NoLast EXCEPT !.op = "remove_key", !.key = k,
                             !.hadCount = IF k \in DOMAIN map THEN map[k].count ELSE 0]
    /\ UNCHANGED <<backend, clock, store, win, rest>>

\* RedisBackend::request: the atomic pipeline runs on the server at time
\* clock; the reply is handled `delay` ticks later, where reset is computed
\* from Instant::now().  The callers are RedisBackend values of any number
\* of processes on one server: a request that the server runs before the
\* caller of the request served before it has read its reply is in flight
\* together with it.
RedisRequest(k, interval, max_requests, delay) ==
    /\ backend = "redis"
    /\ Lookup(store[make_key(key_prefix, k)], clock).has => store[make_key(key_prefix, k)].val < MaxCount
    /\ LET before == Lookup(store[make_key(key_prefix, k)], clock)
           count == bitfield_incrby(before, 1).val
           after == request_pipe(store[make_key(key_prefix, k)], interval, clock)
           ttl == ttl_cmd(after, clock)
           out == SimpleOutput(max_requests, count, clock + delay + ttl * TicksPerSec)
           concurrent == last.op = "request" /\ last.key = k /\ clock < last.now
       IN /\ store' = [store EXCEPT ![make_key(key_prefix, k)] = after]
          /\ win' = IF after.has
                    THEN [win EXCEPT ![k] =
                            WinRequest(win[k], ~before.has, count, max_requests, concurrent)]
                    ELSE win
          /\ last' = IF negative_ttl(ttl)
                     THEN [NoLast EXCEPT !.op = "request", !.key = k, !.err = "NegativeTtl"]
                     ELSE [NoLast EXCEPT
                             !.op = "request", !.key = k,
                             !.decision = from_allowed(allow(count, max_requests)),
                             !.limit = out.limit, !.remaining = out.remaining,
                             !.reset = out.reset, !.count = count,
                             !.path = IF before.has THEN "incr" ELSE "insert",
                             !.now = clock + delay,
                             !.undid = (before.has /\ last.op = "rollback" /\ last.undid
                                        /\ last.key = k /\ last.limit = max_requests),
                             !.interval = IF before.has THEN 0 ELSE interval,
                             !.hadCount = IF before.has THEN 0
                                          ELSE IF last.op = "remove_key" /\ last.key = k
                                          THEN last.hadCount ELSE store[make_key(key_prefix, k)].val]
    /\ UNCHANGED <<backend, clock, map, rest>>

\* RedisBackend::request, query_async(..).await? returns a RedisError: the
\* connection failed before (ran = FALSE) or after the server ran the pipeline
RedisRequestError(k, interval, ran) ==
    /\ backend = "redis"
    /\ ran /\ Lookup(store[make_key(key_prefix, k)], clock).has => store[make_key(key_prefix, k)].val < MaxCount
    /\ LET before == Lookup(store[make_key(key_prefix, k)], clock)
           after == request_pipe(store[make_key(key_prefix, k)], interval, clock)
       IN /\ store' = IF ran THEN [store EXCEPT ![make_key(key_prefix, k)] = after] ELSE store
          /\ win' = IF ran /\ after.has
                    THEN [win EXCEPT ![k] = WinLost(win[k], ~before.has)]
                    ELSE win
    /\ last' = [NoLast EXCEPT !.op = "request", !.key = k, !.err = "Redis"]
    /\ UNCHANGED <<backend, clock, map, rest>>

\* RedisBackend::rollback
RedisRollback(k, kind) ==
    /\ backend = "redis"
    /\ TokAvail(win[k], Lookup(store[make_key(key_prefix, k)], clock).has, kind)
    /\ Lookup(store[make_key(key_prefix, k)], clock).has => win[k].rbs < MaxRollbacks
    /\ store' = [store EXCEPT ![make_key(key_prefix, k)] = rollback_pipe(store[make_key(key_prefix, k)], clock)]
    /\ win' = IF Lookup(store[make_key(key_prefix, k)], clock).has
              THEN [win EXCEPT ![k] = WinRollback(win[k], kind)] ELSE win
    /\ LET undoes == Lookup(store[make_key(key_prefix, k)], clock).has /\ kind = "cur"
                     /\ last.op = "request" /\ last.key = k /\ last.err = "none"
       IN last' = [NoLast EXCEPT
                  !.op = "rollback", !.key = k, !.kind = kind,
                  !.undid = undoes,
                  !.limit = IF undoes THEN last.limit ELSE 0,
                  !.remaining = IF undoes THEN last.remaining ELSE 0]
    /\ UNCHANGED <<backend, clock, map, rest>>

\* RedisBackend::remove_key: DEL key
RedisRemoveKey(k) ==
    /\ backend = "redis"
    /\ store' = [store EXCEPT ![make_key(key_prefix, k)] = NoKey]
    /\ last' = [NoLast EXCEPT !.op = "remove_key", !.key = k,
                             !.hadCount = Lookup(store[make_key(key_prefix, k)], clock).val]
    /\ UNCHANGED <<backend, clock, map, win, rest>>

\* -------------------------------------------- the sweep and the lifecycle

\* JoinHandle::abort: a task that is not running is cancelled on the spot,
\* a task that is running is cancelled when it reaches its next await
abort_nothing(g) == g

abort(g) ==
    IF g.state = "retain" THEN [g EXCEPT !.abort = TRUE]
    ELSE [g EXCEPT !.state = "aborted"]

\* Builder::build: garbage_collector asserts before it spawns the task
build ==
    /\ backend = "builder"
    /\ IF gc.interval = None
       THEN backend' = "memory" /\ gc' = gc
       ELSE IF ~gc_assert(gc.interval)
       THEN backend' = "panicked" /\ gc' = gc
       ELSE backend' = "memory" /\ gc' = [gc EXCEPT !.handle = TRUE, !.state = "spawned"]
    /\ UNCHANGED <<clock, map, store, last, win, hdr, ext>>

\* #[derive(Clone)] for InMemoryBackend
clone ==
    /\ backend = "memory"
    /\ gc.clones < MaxClones
    /\ gc' = [gc EXCEPT !.clones = gc.clones + 1]
    /\ UNCHANGED <<backend, clock, map, store, last, win, hdr, ext>>

\* impl Drop for InMemoryBackend, run for one of the clones
drop ==
    /\ backend = "memory"
    /\ backend' = IF gc.clones = 1 THEN "dropped" ELSE "memory"
    /\ gc' = [(IF gc.handle THEN abort(gc) ELSE gc) EXCEPT
                !.clones = gc.clones - 1, !.dropped = TRUE]
    /\ UNCHANGED <<clock, map, store, last, win, hdr, ext>>

\* the top of the loop in garbage_collector: let now = Instant::now(), and
\* map.retain starts; reached when the task is first polled and when
\* sleep_until(now + interval) is over
gc_loop ==
    /\ \/ gc.state = "spawned"
       \/ gc.state = "sleep" /\ clock >= gc.now + gc.interval
    /\ gc' = [gc EXCEPT !.state = "retain", !.now = clock,
                        !.todo = Keys, !.removed = {}]
    /\ UNCHANGED <<backend, clock, map, store, last, win, hdr, ext>>

\* map.retain(|_k, v| v.ttl > now) reaches key k (retain locks one shard
\* after the other); after the last key the task awaits sleep_until, where
\* a requested cancellation takes effect
gc_retain(k) ==
    /\ gc.state = "retain"
    /\ k \in gc.todo
    /\ LET gone == k \in DOMAIN map /\ ~retain(map[k], gc.now)
           done == gc.todo = {k}
       IN /\ map' = IF gone THEN Remove(map, k) ELSE map
          /\ gc' = [gc EXCEPT
                      !.todo = gc.todo \ {k},
                      !.removed = IF gone THEN gc.removed \cup {k} ELSE gc.removed,
                      !.state = IF ~done THEN "retain"
                                ELSE IF gc.abort THEN "aborted" ELSE "sleep"]
    /\ UNCHANGED <<backend, clock, store, last, win, hdr, ext>>

Next ==
    \/ Tick
    \/ \E k \in OneKey, iv \in Intervals, mx \in Limits, age \in Ages : MemRequest(k, iv, mx, age)
    \/ \E k \in OneKey, kind \in TokenKinds : MemRollback(k, kind)
    \/ \E k \in OneKey : MemRemoveKey(k)
    \/ \E k \in OneKey, iv \in Intervals, mx \in Limits, d \in Delays : RedisRequest(k, iv, mx, d)
    \/ \E k \in OneKey, iv \in Intervals, ran \in BOOLEAN : RedisRequestError(k, iv, ran)
    \/ \E k \in OneKey, kind \in TokenKinds : RedisRollback(k, kind)
    \/ \E k \in OneKey : RedisRemoveKey(k)

Spec == Init /\ [][Next]_vars

\* the in-memory store from its Builder on: build, the sweep racing with
\* the requests on one key, intervals up to the largest Duration
GcSweeps == {None} \cup (0..MaxGcInterval)
GcIntervals == Intervals \cup {DurationMax}
GcLimits == {1}

GcInit ==
    /\ backend = "builder"
    /\ clock = 0
    /\ map = [x \in {} |-> Value(0, 0)]
    /\ store = [k \in StoredKeys |-> NoKey]
    /\ last = NoLast
    /\ win = [k \in Keys |-> NoWin]
    /\ gc \in {[NoGc EXCEPT !.interval = i] : i \in GcSweeps}
    /\ hdr = NoHdr
    /\ NoExt

GcNext ==
    \/ Tick
    \/ build
    \/ gc_loop
    \/ \E k \in Keys : gc_retain(k)
    \/ \E k \in OneKey, iv \in GcIntervals, mx \in GcLimits, age \in Ages : MemRequest(k, iv, mx, age)

GcSpec == GcInit /\ [][GcNext]_vars

\* the life of a bucket: the store from its Builder on, with or without a
\* sweep, under requests, rollbacks and remove_key on one key
BucketIntervals == {0, 1}
BucketLimits == {1}

BucketNext ==
    \/ Tick
    \/ build
    \/ gc_loop
    \/ \E k \in Keys : gc_retain(k)
    \/ \E k \in OneKey, iv \in BucketIntervals, mx \in BucketLimits : MemRequest(k, iv, mx, 0)
    \/ \E k \in OneKey, kind \in TokenKinds : MemRollback(k, kind)
    \/ \E k \in OneKey : MemRemoveKey(k)

BucketSpec == GcInit /\ [][BucketNext]_vars

\* the sweep and the clones of a built store over the buckets of two keys:
\* every map that requests can have left behind at time 0, no caller active
SweepBuckets ==
    {Value(ttl, count) : ttl \in Intervals, count \in 0..MaxCount}

SweepMaps ==
    UNION {[ks -> SweepBuckets] : ks \in SUBSET Keys}

SweepInit ==
    /\ backend = "memory"
    /\ clock = 0
    /\ map \in SweepMaps
    /\ store = [k \in StoredKeys |-> NoKey]
    /\ last = NoLast
    /\ win = [k \in Keys |-> NoWin]
    /\ gc \in {[NoGc EXCEPT !.interval = i, !.handle = TRUE, !.state = "spawned"] :
                 i \in 1..MaxGcInterval}
    /\ hdr = NoHdr
    /\ NoExt

SweepNext ==
    \/ Tick
    \/ clone
    \/ drop
    \/ gc_loop
    \/ \E k \in Keys : gc_retain(k)

SweepSpec == SweepInit /\ [][SweepNext]_vars

\* the calls on two keys of one in-memory store, in any order, at one
\* instant: a bucket of interval 0 is expired as soon as it is made
TwoKeyIntervals == {0, 1}
TwoKeyLimits == {1}

TwoKeyInit ==
    /\ backend = "memory"
    /\ clock = 0
    /\ map = [x \in {} |-> Value(0, 0)]
    /\ store = [k \in StoredKeys |-> NoKey]
    /\ last = NoLast
    /\ win = [k \in Keys |-> NoWin]
    /\ gc = NoGc
    /\ hdr = NoHdr
    /\ NoExt

TwoKeyNext ==
    \/ \E k \in Keys, iv \in TwoKeyIntervals, mx \in TwoKeyLimits : MemRequest(k, iv, mx, 0)
    \/ \E k \in Keys : MemRollback(k, "dup")
    \/ \E k \in Keys : MemRemoveKey(k)

TwoKeySpec == TwoKeyInit /\ [][TwoKeyNext]_vars

\* an InMemoryBackend and a RedisBackend (no key prefix) side by side: each
\* call is made on both at the same time, a whole number of seconds, and
\* the interval of a request is a whole number of seconds, at least one
PairIntervals == {iv \in Intervals : iv > 0 /\ iv % TicksPerSec = 0}

whole_second(t) == t % TicksPerSec = 0

Result(count, max_requests) ==
    [decision |-> from_allowed(allow(count, max_requests)),
     remaining |-> SimpleOutput(max_requests, count, 0).remaining]

RedisResult(ttl, count, max_requests) ==
    IF negative_ttl(ttl) THEN [decision |-> "NegativeTtl", remaining |-> 0]
    ELSE Result(count, max_requests)

PairInit ==
    /\ backend = "both"
    /\ clock = 0
    /\ map = [x \in {} |-> Value(0, 0)]
    /\ store = [k \in StoredKeys |-> NoKey]
    /\ last = NoLast
    /\ win = [k \in Keys |-> NoWin]
    /\ gc = NoGc
    /\ hdr = NoHdr
    /\ NoExt

\* request(input) on both backends
PairRequest(k, interval, max_requests) ==
    /\ backend = "both"
    /\ whole_second(clock)
    /\ k \in DOMAIN map => map[k].count < MaxCount
    /\ store[make_key(key_prefix, k)].val < MaxCount
    /\ LET v == entry(map, k, clock, checked_add(clock, interval))
           before == Lookup(store[make_key(key_prefix, k)], clock)
           after == request_pipe(store[make_key(key_prefix, k)], interval, clock)
       IN /\ map' = Put(map, k, v)
          /\ store' = [store EXCEPT ![make_key(key_prefix, k)] = after]
          /\ pair' = [op |-> "request",
                      mem |-> Result(v.count, max_requests),
                      redis |-> RedisResult(ttl_cmd(after, clock),
                                            bitfield_incrby(before, 1).val,
                                            max_requests)]
    /\ UNCHANGED <<backend, clock, last, win, gc, hdr, key_prefix, ipk, mw, tokens>>

\* rollback(token) on both backends, the token of a request on key k
PairRollback(k) ==
    /\ backend = "both"
    /\ whole_second(clock)
    /\ pair.op # "none"
    /\ map' = rollback_entry(map, k)
    /\ store' = [store EXCEPT ![make_key(key_prefix, k)] =
                    rollback_pipe(store[make_key(key_prefix, k)], clock)]
    /\ pair' = [NoPair EXCEPT !.op = "rollback"]
    /\ UNCHANGED <<backend, clock, last, win, gc, hdr, key_prefix, ipk, mw, tokens>>

\* remove_key(key) on both backends
PairRemoveKey(k) ==
    /\ backend = "both"
    /\ whole_second(clock)
    /\ map' = Remove(map, k)
    /\ store' = [store EXCEPT ![make_key(key_prefix, k)] = NoKey]
    /\ pair' = [NoPair EXCEPT !.op = "remove_key"]
    /\ UNCHANGED <<backend, clock, last, win, gc, hdr, key_prefix, ipk, mw, tokens>>

PairNext ==
    \/ Tick
    \/ \E k \in OneKey, iv \in PairIntervals, mx \in Limits : PairRequest(k, iv, mx)
    \/ \E k \in OneKey : PairRollback(k)
    \/ \E k \in OneKey : PairRemoveKey(k)

PairSpec == PairInit /\ [][PairNext]_vars

\* a Redis server written by RedisBackend values only, with requests of
\* every interval greater than zero, those shorter than a second included
RedisIntervals == Intervals \ {0}

RedisInit == Init /\ backend = "redis"

RedisNext ==
    \/ Tick
    \/ \E k \in OneKey, iv \in RedisIntervals, mx \in Limits, d \in Delays :
          RedisRequest(k, iv, mx, d)
    \/ \E k \in OneKey, kind \in TokenKinds : RedisRollback(k, kind)
    \/ \E k \in OneKey : RedisRemoveKey(k)

RedisSpec == RedisInit /\ [][RedisNext]_vars

\* the callers of one key, each keeping the RollbackToken of its Allowed
\* request until it gives it to rollback, at any later time and once; every
\* request carries the same max_requests and an interval of one second
TokenLimits == 1..MaxLimit
TokenIntervals == {TicksPerSec}

TokenInit ==
    /\ backend \in {"memory", "redis"}
    /\ clock = 0
    /\ map = [x \in {} |-> Value(0, 0)]
    /\ store = [k \in StoredKeys |-> NoKey]
    /\ last = NoLast
    /\ win = [k \in Keys |-> NoWin]
    /\ gc = NoGc
    /\ hdr = NoHdr
    /\ key_prefix = <<>>
    /\ ipk = NoIpk
    /\ mw = NoMw
    /\ pair = NoPair
    /\ tokens \in {[NoTokens EXCEPT !.max_requests = m] : m \in TokenLimits}

\* the tokens held after a request that observed count: a request that made
\* the bucket opened a window
held_after(t, created, count) ==
    LET held == IF created THEN Append(t.held, 0) ELSE t.held
    IN [t EXCEPT !.held = IF allow(count, t.max_requests)
                          THEN [held EXCEPT ![Len(held)] = @ + 1]
                          ELSE held]

\* request(input): Ok((decision, output, input.key)), the caller of an
\* Allowed request keeps the token
TokenRequest(k, interval) ==
    /\ backend \in {"memory", "redis"}
    /\ IF backend = "memory"
       THEN /\ entry_path(map, k, clock) = "incr" => map[k].count < MaxCount
            /\ map' = Put(map, k, entry(map, k, clock, checked_add(clock, interval)))
            /\ tokens' = held_after(tokens, entry_path(map, k, clock) # "incr", map'[k].count)
            /\ store' = store
       ELSE /\ store[make_key(key_prefix, k)].val < MaxCount
            /\ store' = [store EXCEPT ![make_key(key_prefix, k)] =
                            request_pipe(store[make_key(key_prefix, k)], interval, clock)]
            /\ tokens' = held_after(tokens,
                                    ~Lookup(store[make_key(key_prefix, k)], clock).has,
                                    store'[make_key(key_prefix, k)].val)
            /\ map' = map
    /\ UNCHANGED <<backend, clock, last, win, gc, hdr, key_prefix, ipk, mw, pair>>

\* rollback(token) with a token kept from an Allowed request of window w
TokenRollback(k, w) ==
    /\ backend \in {"memory", "redis"}
    /\ w \in 1..Len(tokens.held)
    /\ tokens.held[w] > 0
    /\ tokens' = [tokens EXCEPT !.held[w] = @ - 1]
    /\ IF backend = "memory"
       THEN map' = rollback_entry(map, k) /\ store' = store
       ELSE /\ store' = [store EXCEPT ![make_key(key_prefix, k)] =
                            rollback_pipe(store[make_key(key_prefix, k)], clock)]
            /\ map' = map
    /\ UNCHANGED <<backend, clock, last, win, gc, hdr, key_prefix, ipk, mw, pair>>

TokenNext ==
    \/ Tick
    \/ \E k \in OneKey, iv \in TokenIntervals : TokenRequest(k, iv)
    \/ \E k \in OneKey, w \in 1..(MaxTime + 1) : TokenRollback(k, w)

TokenSpec == TokenInit /\ [][TokenNext]_vars

\* a RedisBackend with or without a key prefix on a server that holds any
\* keys of other users of the server too (other keys, other prefixes, no
\* prefix); the calls are those on one key
PrefixEntries == {NoKey, [has |-> TRUE, val |-> 1, exp |-> TicksPerSec]}
PrefixIntervals == {TicksPerSec}
PrefixLimits == {1}

PrefixInit ==
    /\ backend = "redis"
    /\ clock = 0
    /\ map = [x \in {} |-> Value(0, 0)]
    /\ store \in [StoredKeys -> PrefixEntries]
    /\ last = NoLast
    /\ win = [k \in Keys |-> NoWin]
    /\ gc = NoGc
    /\ hdr = NoHdr
    /\ key_prefix \in {<<>>} \cup {<<p>> : p \in Prefixes}
    /\ ipk = NoIpk
    /\ mw = NoMw
    /\ pair = NoPair
    /\ tokens = NoTokens

PrefixNext ==
    \/ Tick
    \/ \E k \in OneKey, iv \in PrefixIntervals, mx \in PrefixLimits : RedisRequest(k, iv, mx, 0)
    \/ \E k \in OneKey, kind \in TokenKinds : RedisRollback(k, kind)
    \/ \E k \in OneKey : RedisRemoveKey(k)

PrefixSpec == PrefixInit /\ [][PrefixNext]_vars

\* ------------------------------------------------------- the key builder
\* A text is a sequence of characters.  An IpAddr is [kind, octets,
\* segments]: kind "V4" with its 4 octets, kind "V6" with its 8 segments,
\* and kind "Err" for the AddrParseError of a text that is no address.
DecDigits == <<"0", "1", "2", "3", "4", "5", "6", "7", "8", "9">>
LowerHex == DecDigits \o <<"a", "b", "c", "d", "e", "f">>
UpperHex == DecDigits \o <<"A", "B", "C", "D", "E", "F">>

IndexOf(seq, c) ==
    IF \E i \in 1..Len(seq) : seq[i] = c
    THEN CHOOSE i \in 1..Len(seq) : seq[i] = c
    ELSE 0

\* char::to_digit: the value of the digit c in the radix, None for any
\* other character
digit_of(c) ==
    IF IndexOf(LowerHex, c) > 0 THEN IndexOf(LowerHex, c) - 1
    ELSE IF IndexOf(UpperHex, c) > 0 THEN IndexOf(UpperHex, c) - 1
    ELSE None

in_radix(d, radix) == IF d # None /\ d < radix THEN d ELSE None

to_digit(c, radix) == in_radix(digit_of(c), radix)

\* what a reader of the parser returns: a value and the position behind
\* it, or nothing
ReadNone == [ok |-> FALSE, val |-> <<>>, pos |-> 0]
ReadSome(val, pos) == [ok |-> TRUE, val |-> val, pos |-> pos]

\* the number of digits at position pos of the text t
RECURSIVE digit_count(_, _, _)
digit_count(t, pos, radix) ==
    IF pos <= Len(t) /\ to_digit(t[pos], radix) # None
    THEN 1 + digit_count(t, pos + 1, radix)
    ELSE 0

\* the value of the n digits at position pos
RECURSIVE digits_value(_, _, _, _)
digits_value(t, pos, n, radix) ==
    IF n = 0 THEN 0
    ELSE digits_value(t, pos, n - 1, radix) * radix + to_digit(t[pos + n - 1], radix)

\* Parser::read_number: all the digits at pos; nothing when there is no
\* digit, more than max_digits, a zero in front that is not allowed, or a
\* value that does not fit the type (checked_mul, checked_add)
number_fits(value, max_value, pos) ==
    IF value > max_value THEN ReadNone ELSE ReadSome(value, pos)

number_of(t, pos, radix, max_digits, allow_zero_prefix, max_value, n) ==
    IF n = 0 \/ n > max_digits THEN ReadNone
    ELSE IF ~allow_zero_prefix /\ t[pos] = "0" /\ n > 1 THEN ReadNone
    ELSE number_fits(digits_value(t, pos, n, radix), max_value, pos + n)

read_number(t, pos, radix, max_digits, allow_zero_prefix, max_value) ==
    number_of(t, pos, radix, max_digits, allow_zero_prefix, max_value,
              digit_count(t, pos, radix))

\* Parser::read_separator: before every group but the first the separator
\* is read; the position behind it, 0 when it is not there
read_separator(t, pos, sep, index) ==
    IF index = 0 THEN pos
    ELSE IF pos <= Len(t) /\ t[pos] = sep THEN pos + 1
    ELSE 0

\* Parser::read_ipv4_addr: four decimal octets with dots between them
read_octet(t, p) ==
    IF p = 0 THEN ReadNone ELSE read_number(t, p, 10, 3, FALSE, 255)

RECURSIVE read_octets(_, _, _, _)
RECURSIVE octets_with(_, _, _, _)
octets_with(t, i, octets, n) ==
    IF n.ok THEN read_octets(t, n.pos, i + 1, Append(octets, n.val)) ELSE ReadNone

read_octets(t, pos, i, octets) ==
    IF i = 4 THEN ReadSome(octets, pos)
    ELSE octets_with(t, i, octets, read_octet(t, read_separator(t, pos, ".", i)))

read_ipv4_addr(t, pos) == read_octets(t, pos, 0, <<>>)

\* read_groups of Parser::read_ipv6_addr: up to `limit` groups of up to 4
\* hex digits with colons between them, the last two of which may be
\* written as an IPv4 address (tried first, where two groups are left);
\* how many were read and whether the IPv4 form ended them
read_embedded(t, p, i, limit) ==
    IF p # 0 /\ i < limit - 1 THEN read_ipv4_addr(t, p) ELSE ReadNone

read_group(t, p) ==
    IF p # 0 THEN read_number(t, p, 16, 4, TRUE, 65535) ELSE ReadNone

RECURSIVE read_groups(_, _, _, _, _)
RECURSIVE groups_with(_, _, _, _, _, _, _)
RECURSIVE groups_at(_, _, _, _, _, _)
groups_with(t, pos, i, limit, groups, v4, g) ==
    IF v4.ok
    THEN [size |-> i + 2, ipv4 |-> TRUE,
          groups |-> groups \o <<v4.val[1] * 256 + v4.val[2],
                                 v4.val[3] * 256 + v4.val[4]>>,
          pos |-> v4.pos]
    ELSE IF g.ok
    THEN read_groups(t, g.pos, i + 1, limit, Append(groups, g.val))
    ELSE [size |-> i, ipv4 |-> FALSE, groups |-> groups, pos |-> pos]

groups_at(t, pos, i, limit, groups, p) ==
    groups_with(t, pos, i, limit, groups, read_embedded(t, p, i, limit), read_group(t, p))

read_groups(t, pos, i, limit, groups) ==
    IF i >= limit
    THEN [size |-> i, ipv4 |-> FALSE, groups |-> groups, pos |-> pos]
    ELSE groups_at(t, pos, i, limit, groups, read_separator(t, pos, ":", i))

\* Parser::read_ipv6_addr: 8 groups, or fewer groups around one "::" that
\* stands for at least one group of zeroes
ipv6_tail(head, tail) ==
    ReadSome(head.groups \o [j \in 1..(8 - head.size - tail.size) |-> 0] \o tail.groups,
             tail.pos)

ipv6_head(t, head) ==
    IF head.size = 8 THEN ReadSome(head.groups, head.pos)
    ELSE IF head.ipv4 THEN ReadNone
    ELSE IF ~(head.pos + 1 <= Len(t) /\ t[head.pos] = ":" /\ t[head.pos + 1] = ":")
    THEN ReadNone
    ELSE ipv6_tail(head, read_groups(t, head.pos + 2, 0, 7 - head.size, <<>>))

read_ipv6_addr(t) == ipv6_head(t, read_groups(t, 1, 0, 8, <<>>))

AddrParseError == [kind |-> "Err", octets |-> <<>>, segments |-> <<>>]
V4(octets) == [kind |-> "V4", octets |-> octets, segments |-> <<>>]
V6(segments) == [kind |-> "V6", octets |-> <<>>, segments |-> segments]

\* ip_str.parse::<IpAddr>(): an IPv4 or else an IPv6 address that is the
\* whole text
parse_v6(t, v6) ==
    IF v6.ok /\ v6.pos = Len(t) + 1 THEN V6(v6.val) ELSE AddrParseError

parse_v4(t, v4) ==
    IF v4.ok
    THEN IF v4.pos = Len(t) + 1 THEN V4(v4.val) ELSE AddrParseError
    ELSE parse_v6(t, read_ipv6_addr(t))

parse(t) == parse_v4(t, read_ipv4_addr(t, 1))

\* the digits of n in the radix, without zeroes in front
RECURSIVE fmt_number(_, _)
fmt_number(n, radix) ==
    IF n < radix THEN <<LowerHex[n + 1]>>
    ELSE fmt_number(n \div radix, radix) \o <<LowerHex[(n % radix) + 1]>>

\* the texts of seq with sep between them
RECURSIVE join(_, _)
join(seq, sep) ==
    IF seq = <<>> THEN <<>>
    ELSE IF Len(seq) = 1 THEN seq[1]
    ELSE seq[1] \o sep \o join(Tail(seq), sep)

\* Display of Ipv4Addr
fmt_v4(octets) == join([i \in 1..4 |-> fmt_number(octets[i], 10)], <<".">>)

\* Ipv6Addr::to_ipv4_mapped: the octets of ::ffff:a.b.c.d, <<>> for None
to_ipv4_mapped(segments) ==
    IF SubSeq(segments, 1, 6) = <<0, 0, 0, 0, 0, 65535>>
    THEN <<segments[7] \div 256, segments[7] % 256,
           segments[8] \div 256, segments[8] % 256>>
    ELSE <<>>

\* Ipv6Addr::to_ipv4: the octets of ::ffff:a.b.c.d and of ::a.b.c.d (so of
\* ::1 and of :: too), <<>> for None
to_ipv4(segments) ==
    IF SubSeq(segments, 1, 5) = <<0, 0, 0, 0, 0>> /\ segments[6] \in {0, 65535}
    THEN <<segments[7] \div 256, segments[7] % 256,
           segments[8] \div 256, segments[8] % 256>>
    ELSE <<>>

\* the length of the run of zero segments that starts at segment i
RECURSIVE zero_run(_, _)
zero_run(segments, i) ==
    IF i <= Len(segments) /\ segments[i] = 0 THEN 1 + zero_run(segments, i + 1) ELSE 0

\* Display of Ipv6Addr: hex groups, the first of the longest runs of two
\* or more zero groups written as "::"
fmt_subslice(segments) ==
    join([i \in 1..Len(segments) |-> fmt_number(segments[i], 16)], <<":">>)

longest_zeroes(segments) ==
    CHOOSE i \in 1..8 :
        /\ \A j \in 1..8 : zero_run(segments, j) <= zero_run(segments, i)
        /\ \A j \in 1..(i - 1) : zero_run(segments, j) < zero_run(segments, i)

fmt_compressed(segments, start, len) ==
    IF len > 1
    THEN fmt_subslice(SubSeq(segments, 1, start - 1)) \o <<":", ":">>
         \o fmt_subslice(SubSeq(segments, start + len, 8))
    ELSE fmt_subslice(segments)

fmt_at(segments, start) == fmt_compressed(segments, start, zero_run(segments, start))

fmt_v6(segments) ==
    IF to_ipv4_mapped(segments) # <<>>
    THEN <<":", ":", "f", "f", "f", "f", ":">> \o fmt_v4(to_ipv4_mapped(segments))
    ELSE fmt_at(segments, longest_zeroes(segments))

\* a text as a String
RECURSIVE Str(_)
Str(t) == IF t = <<>> THEN "" ELSE Head(t) \o Str(Tail(t))

\* a subnet that keeps 80 bits of the address
subnet_80(segments) == SubSeq(segments, 1, 5) \o <<0, 0, 0>>

\* [&v6.segments()[0..4], &zeroes].concat(): the /64 network of the address
subnet(segments) == SubSeq(segments, 1, 4) \o <<0, 0, 0, 0>>

\* Result<String, Error>
Ok(val) == [tag |-> "Ok", val |-> val]
Err(e) == [tag |-> "Err", val |-> e]

\* an ip_key that gives a text it cannot parse a key of its own
ip_key_fallback(ip) ==
    IF ip.kind = "Err" THEN Ok("")
    ELSE IF ip.kind = "V4" THEN Ok(Str(fmt_v4(ip.octets)))
    ELSE IF to_ipv4(ip.segments) # <<>> THEN Ok(Str(fmt_v4(to_ipv4(ip.segments))))
    ELSE Ok(Str(fmt_v6(subnet(ip.segments))) \o "/64")

\* ip_key on what parse returned: the ? on the AddrParseError, the match
ip_key_of(ip) ==
    IF ip.kind = "Err" THEN Err("InvalidIpError")
    ELSE IF ip.kind = "V4" THEN Ok(Str(fmt_v4(ip.octets)))
    ELSE IF to_ipv4(ip.segments) # <<>> THEN Ok(Str(fmt_v4(to_ipv4(ip.segments))))
    ELSE Ok(Str(fmt_v6(subnet(ip.segments))) \o "/64")

\* ip_key
ip_key(ip_str) == ip_key_of(parse(ip_str))

\* the addresses given to ip_key: IPv4 addresses, and IPv6 addresses of
\* these upper and lower halves (networks with and without zero groups,
\* the zero network; hosts ::, ::1, an IPv4-mapped and other lower halves)
KeyV4 == {<<142, 250, 187, 206>>, <<0, 0, 0, 1>>, <<10, 0, 255, 100>>}
KeyUppers ==
    {<<10752, 5200, 16393, 2079>>, <<10752, 0, 0, 0>>, <<10752, 0, 0, 1>>,
     <<100, 65435, 0, 0>>, <<0, 0, 0, 0>>}
KeyLowers ==
    {<<0, 0, 0, 0>>, <<0, 0, 0, 1>>, <<0, 0, 0, 8206>>,
     <<0, 65535, 36602, 48078>>, <<1, 0, 0, 1>>}
KeyV6 == {u \o l : u \in KeyUppers, l \in KeyLowers}

\* the ways an IPv6 address is written: as Display writes it, the same in
\* capitals, all 8 groups, and with its last 32 bits as an IPv4 address
to_upper(t) ==
    [i \in 1..Len(t) |->
        IF IndexOf(LowerHex, t[i]) > 0 THEN UpperHex[IndexOf(LowerHex, t[i])] ELSE t[i]]

KeyStyles == {"display", "capitals", "groups", "dotted"}

text_v6(segments, style) ==
    IF style = "display" THEN fmt_v6(segments)
    ELSE IF style = "capitals" THEN to_upper(fmt_v6(segments))
    ELSE IF style = "groups" THEN fmt_subslice(segments)
    ELSE fmt_subslice(SubSeq(segments, 1, 6)) \o <<":">>
         \o fmt_v4(<<segments[7] \div 256, segments[7] % 256,
                     segments[8] \div 256, segments[8] % 256>>)

\* texts that are no address: what a Forwarded header or a proxy can
\* carry in place of one
KeyMalformed ==
    {<<>>,
     <<"u", "n", "k", "n", "o", "w", "n">>,
     <<"1", ".", "2", ".", "3">>,
     <<"1", ".", "2", ".", "3", ".", "4", ":", "8", "0">>,
     <<"2", "5", "6", ".", "1", ".", "1", ".", "1">>,
     <<"0", "1", ".", "2", ".", "3", ".", "4">>,
     <<"1", ".", "2", ".", "3", ".", "4", ".", "5">>,
     <<"[", ":", ":", "1", "]">>,
     <<"[", "2", "a", "0", "0", ":", ":", "1", "]", ":", "8", "0">>,
     <<"1", ":", "2", ":", "3", ":", "4", ":", "5", ":", "6", ":", "7", ":", "8", ":", "9">>,
     <<"1", ":", ":", "2", ":", ":", "3">>,
     <<"1", "2", "3", "4", "5", ":", ":">>,
     <<":", ":", "g">>,
     <<"1", ".", "2", ".", "3", ".", "4", ":", ":">>,
     <<"2", "a", "0", "0", ":", "1", "4", "5", "0", ":", "4", "0", "0", "9", ":", "8", "1", "f">>,
     <<":", ":", "1", "%", "7">>,
     <<" ", ":", ":", "1">>}

\* an argument of ip_key: the text, and the address it was written from
KeyArgs ==
    {[addr |-> V4(o), ip_str |-> fmt_v4(o)] : o \in KeyV4}
    \cup {[addr |-> V6(g), ip_str |-> text_v6(g, st)] : g \in KeyV6, st \in KeyStyles}
    \cup {[addr |-> AddrParseError, ip_str |-> t] : t \in KeyMalformed}

NoRes == [tag |-> "none", val |-> ""]

\* ip_key is called on two texts, in any order
KeyInit ==
    /\ backend = "none"
    /\ clock = 0
    /\ map = [x \in {} |-> Value(0, 0)]
    /\ store = [k \in StoredKeys |-> NoKey]
    /\ last = NoLast
    /\ win = [k \in Keys |-> NoWin]
    /\ gc = NoGc
    /\ hdr = NoHdr
    /\ key_prefix = <<>>
    /\ ipk \in {[arg |-> <<a, b>>, res |-> <<NoRes, NoRes>>] : a \in KeyArgs, b \in KeyArgs}
    /\ mw = NoMw
    /\ pair = NoPair
    /\ tokens = NoTokens

ip_key_call(i) ==
    /\ ipk.res[i] = NoRes
    /\ ipk' = [ipk EXCEPT !.res[i] = ip_key(ipk.arg[i].ip_str)]
    /\ UNCHANGED <<backend, clock, map, store, last, win, gc, hdr, key_prefix, mw, pair, tokens>>

KeyNext == \E i \in 1..2 : ip_key_call(i)

KeySpec == KeyInit /\ [][KeyNext]_vars

\* the strings of seq with sep between them (slice::join)
RECURSIVE JoinStr(_, _)
JoinStr(seq, sep) ==
    IF seq = <<>> THEN ""
    ELSE IF Len(seq) = 1 THEN seq[1]
    ELSE seq[1] \o sep \o JoinStr(Tail(seq), sep)

SimpleInput(interval, max_requests, key) ==
    [interval |-> interval, max_requests |-> max_requests, key |-> key]

\* the closure that SimpleInputFunctionBuilder::build returns, called on a
\* request: b is the builder (custom_key is <<>> for None), req the
\* request with its realip_remote_addr, its peer_addr and its path
components(b, req, real, peer) ==
    b.custom_key
    \o (IF b.real_ip_key THEN <<real.val>> ELSE <<>>)
    \o (IF b.peer_ip_key THEN <<peer.val>> ELSE <<>>)
    \o (IF b.path_key THEN <<req.path>> ELSE <<>>)

input_with(b, req, real, peer) ==
    IF b.real_ip_key /\ real.tag = "Err" THEN real
    ELSE IF b.peer_ip_key /\ peer.tag = "Err" THEN peer
    ELSE Ok(SimpleInput(b.interval, b.max_requests,
                        JoinStr(components(b, req, real, peer), "-")))

SimpleInputFunction(b, req) ==
    input_with(b, req, ip_key(req.realip), ip_key(req.peer))

\* ---------------------------------------------------------- the middleware
\* mw: one RateLimiterMiddleware::call.  Its settings: builder and req (the
\* input function and the request), fail_open, transformation (whether
\* allowed_transformation is Some), rollback_condition (<<>> for None, else
\* the service results on which the condition holds), denied_status (the
\* status of the response denied_response makes).  Its progress: pc, the
\* await it is at; input, decision, output and rollback as the code names
\* them (<<>> for None); requests, services and rollbacks count the calls of
\* backend.request, service.call and backend.rollback; service_response and
\* rolled_back; response, what the call returned; transformed, the
\* arguments allowed_transformation was called with; logged, the log lines.

\* a middleware that lets a denied request through
deny_never(decision) == FALSE

\* if !allow: the backend denied the request
deny(decision) == decision = "Denied"

\* a middleware that always fails open
backend_failed_open(fail_open) ==
    [proceed |-> TRUE, output |-> <<>>, rollback |-> <<>>]

\* Err(e) of backend.request: (None, None) when fail_open, else return Err(e)
backend_failed(fail_open) ==
    [proceed |-> fail_open, output |-> <<>>, rollback |-> <<>>]

\* RateLimiterBuilder::new: denied_response is 429 Too Many Requests
DefaultDenied == 429

\* RateLimiterBuilder::new: fail_open is false
DefaultFailOpen == FALSE

\* a middleware that asks for a rollback whatever the service returned
wants_rollback_any(rollback, rollback_condition, status) ==
    rollback # <<>> /\ rollback_condition # <<>>

\* if let Some(token) = rollback, if let Some(rollback_condition), if
\* rollback_condition(status)
wants_rollback(rollback, rollback_condition, status) ==
    /\ rollback # <<>>
    /\ rollback_condition # <<>>
    /\ status \in rollback_condition[1]

\* Result<StatusCode, &Error> of the service: a response with its status,
\* or an error with the status of its error response
ServiceOk(status) == [tag |-> "Ok", status |-> status]
ServiceErr(status) == [tag |-> "Err", status |-> status]
NoService == [tag |-> "none", status |-> 0]

\* what call returns: the denied response, the response of the service,
\* or an error (of the input function, the backend or the service)
Response(kind, status, error) == [kind |-> kind, status |-> status, error |-> error]
NoResponse == Response("none", 0, "")

MwServiceResults == {ServiceOk(200), ServiceOk(500), ServiceErr(500)}
MwConditions == {<<>>, <<{ServiceOk(500)}>>, <<{ServiceOk(500), ServiceErr(500)}>>}
MwDenied == {DefaultDenied, 418}
MwBuilders ==
    {[interval |-> TicksPerSec, max_requests |-> 1, custom_key |-> c,
      real_ip_key |-> r, peer_ip_key |-> q, path_key |-> h] :
        c \in {<<>>, <<"api">>}, r \in BOOLEAN, q \in BOOLEAN, h \in BOOLEAN}
\* what realip_remote_addr() can hold: the address of the client, or what
\* a Forwarded or X-Forwarded-For header held in its place
MwAddresses ==
    {<<"1", "4", "2", ".", "2", "5", "0", ".", "1", "8", "7", ".", "2", "0", "6">>,
     <<"2", "a", "0", "0", ":", "1", "4", "5", "0", ":", "4", "0", "0", "9", ":", "8", "1", "f", ":", ":", "2", "0", "0", "e">>}
MwMalformed ==
    {<<"u", "n", "k", "n", "o", "w", "n">>,
     <<"1", "4", "2", ".", "2", "5", "0", ".", "1", "8", "7", ".", "2", "0", "6", ":", "4", "4", "3">>}
MwRealIps == MwAddresses \cup MwMalformed
MwRequests ==
    {[realip |-> a, peer |-> <<"1", "0", ".", "0", ".", "0", ".", "7">>, path |-> "/200"] :
        a \in MwRealIps}

MwStart(b, r, fo, tr, rc, ds) ==
    [pc |-> "input", builder |-> b, req |-> r, fail_open |-> fo,
     transformation |-> tr, rollback_condition |-> rc, denied_status |-> ds,
     input |-> NoRes, decision |-> "none", output |-> <<>>, rollback |-> <<>>,
     requests |-> 0, services |-> 0, rollbacks |-> 0,
     service_response |-> NoService, rolled_back |-> FALSE,
     response |-> NoResponse, transformed |-> <<>>, logged |-> <<>>]

\* a request enters a middleware of any settings over a Backend of which
\* only the trait is known
MwInit ==
    /\ backend = "none"
    /\ clock = 0
    /\ map = [x \in {} |-> Value(0, 0)]
    /\ store = [k \in StoredKeys |-> NoKey]
    /\ last = NoLast
    /\ win = [k \in Keys |-> NoWin]
    /\ gc = NoGc
    /\ hdr = NoHdr
    /\ key_prefix = <<>>
    /\ ipk = NoIpk
    /\ pair = NoPair
    /\ tokens = NoTokens
    /\ mw \in {MwStart(b, r, fo, tr, rc, ds) :
                b \in MwBuilders, r \in MwRequests, fo \in BOOLEAN, tr \in BOOLEAN,
                rc \in MwConditions, ds \in MwDenied}

MwUnchanged ==
    UNCHANGED <<backend, clock, map, store, last, win, gc, hdr, key_prefix, ipk, pair, tokens>>

\* let input = (input_fn)(&req).await?
input_done(m, input) ==
    IF input.tag = "Err"
    THEN [m EXCEPT !.input = input,
                   !.response = Response("error", 500, input.val),
                   !.pc = "done"]
    ELSE [m EXCEPT !.input = input, !.pc = "request"]

call_input ==
    /\ mw.pc = "input"
    /\ mw' = input_done(mw, SimpleInputFunction(mw.builder, mw.req))
    /\ MwUnchanged

\* match backend.request(input).await: the call after the backend returned
\* Allowed, Denied or an error
request_done(m, result) ==
    LET asked == [m EXCEPT !.requests = m.requests + 1, !.decision = result]
        failed == backend_failed(m.fail_open)
    IN IF result = "Err"
       THEN IF failed.proceed
            THEN [asked EXCEPT !.output = failed.output,
                               !.rollback = failed.rollback,
                               !.logged = Append(m.logged, "warn: failed, allowing"),
                               !.pc = "service"]
            ELSE [asked EXCEPT !.logged = Append(m.logged, "error: failed"),
                               !.response = Response("error", 500, "backend"),
                               !.pc = "done"]
       ELSE IF deny(result)
       THEN [asked EXCEPT !.response = Response("denied", m.denied_status, ""),
                          !.pc = "done"]
       ELSE [asked EXCEPT !.output = <<"output">>,
                          !.rollback = <<m.input.val.key>>,
                          !.pc = "service"]

\* backend.request of a Backend of which only the trait is known
call_request(result) ==
    /\ mw.pc = "request"
    /\ mw' = request_done(mw, result)
    /\ MwUnchanged

\* let service_response = service.call(req).await, then the test of the
\* rollback condition
call_service(result) ==
    /\ mw.pc = "service"
    /\ mw' = [mw EXCEPT
                !.services = mw.services + 1,
                !.service_response = result,
                !.pc = IF wants_rollback(mw.rollback, mw.rollback_condition, result)
                       THEN "rollback" ELSE "transform"]
    /\ MwUnchanged

\* a middleware that takes a failed rollback for done
rollback_result_ignored(ok) == TRUE

\* if let Err(e) = backend.rollback(token).await { log } else { rolled_back = true }
rollback_result(ok) == ok

\* a middleware that fails the request when its rollback failed
rollback_done_escalated(m, ok) ==
    IF ok
    THEN [m EXCEPT !.rollbacks = m.rollbacks + 1, !.rolled_back = TRUE,
                   !.pc = "transform"]
    ELSE [m EXCEPT !.rollbacks = m.rollbacks + 1,
                   !.logged = Append(m.logged, "error: unable to rollback"),
                   !.response = Response("error", 500, "backend"),
                   !.pc = "done"]

\* the call after backend.rollback(token).await returned Ok or an error
rollback_done(m, ok) ==
    [m EXCEPT
       !.rollbacks = m.rollbacks + 1,
       !.rolled_back = rollback_result(ok),
       !.logged = IF ok THEN m.logged
                  ELSE Append(m.logged, "error: unable to rollback"),
       !.pc = "transform"]

\* backend.rollback of a Backend of which only the trait is known
call_rollback(ok) ==
    /\ mw.pc = "rollback"
    /\ mw' = rollback_done(mw, ok)
    /\ MwUnchanged

\* match service_response: the transformation is applied to the headers of
\* the response, or kept in a TransformedError around the error
call_transform ==
    /\ mw.pc = "transform"
    /\ mw' = IF mw.service_response.tag = "Ok"
             THEN [mw EXCEPT
                     !.transformed = IF mw.transformation
                                     THEN Append(mw.transformed,
                                                 [output |-> mw.output,
                                                  rolled_back |-> mw.rolled_back])
                                     ELSE mw.transformed,
                     !.response = Response("service", mw.service_response.status, ""),
                     !.pc = "done"]
             ELSE [mw EXCEPT
                     !.response = Response("error", mw.service_response.status,
                                           IF mw.transformation
                                           THEN "TransformedError" ELSE "service"),
                     !.pc = "done"]
    /\ MwUnchanged

\* TransformedError::error_response: the server renders the error
error_response ==
    /\ mw.pc = "done"
    /\ mw.response.error = "TransformedError"
    /\ mw' = [mw EXCEPT
                !.transformed = Append(mw.transformed,
                                       [output |-> mw.output,
                                        rolled_back |-> mw.rolled_back]),
                !.pc = "rendered"]
    /\ MwUnchanged

MwNext ==
    \/ call_input
    \/ \E result \in {"Allowed", "Denied", "Err"} : call_request(result)
    \/ \E result \in MwServiceResults : call_service(result)
    \/ \E ok \in BOOLEAN : call_rollback(ok)
    \/ call_transform
    \/ error_response

MwSpec == MwInit /\ [][MwNext]_vars

\* StatusCode::is_server_error
is_server_error(status) == status \in 500..599

\* RateLimiterBuilder::rollback_server_errors: the rollback condition that
\* holds on the statuses that are server errors
rollback_server_errors ==
    <<{r \in MwServiceResults : is_server_error(r.status)}>>

\* the middleware over an InMemoryBackend: one call, no other caller and no
\* sweep, on a map that holds no bucket for the key of the request, an
\* active one or an expired one
MemMwBuilders == {b \in MwBuilders : ~b.peer_ip_key /\ ~b.path_key}
MemMwRequests == {r \in MwRequests : r.realip \in MwAddresses}
MemMwConditions == MwConditions \cup {rollback_server_errors}
MemMwMaps(key) ==
    {[x \in {} |-> Value(0, 0)]}
    \cup {[x \in {key} |-> Value(ttl, count)] : ttl \in Intervals, count \in 0..(MaxCount - 1)}

MemMwStates(m, input) ==
    {[mw |-> m, map |-> mp] : mp \in MemMwMaps(input.val.key)}

MemMwInit ==
    /\ backend = "memory"
    /\ clock = 0
    /\ store = [k \in StoredKeys |-> NoKey]
    /\ last = NoLast
    /\ win = [k \in Keys |-> NoWin]
    /\ gc = NoGc
    /\ hdr = NoHdr
    /\ key_prefix = <<>>
    /\ ipk = NoIpk
    /\ pair = NoPair
    /\ tokens = NoTokens
    /\ \E st \in UNION {MemMwStates(MwStart(b, r, fo, tr, rc, DefaultDenied),
                                    SimpleInputFunction(b, r)) :
                          b \in MemMwBuilders, r \in MemMwRequests, fo \in BOOLEAN,
                          tr \in BOOLEAN, rc \in MemMwConditions} :
          mw = st.mw /\ map = st.map

\* backend.request(input).await on the InMemoryBackend
MemMwRequest ==
    /\ mw.pc = "request"
    /\ backend = "memory"
    /\ LET input == mw.input.val
           expiry == checked_add(clock, input.interval)
           v == entry(map, input.key, clock, expiry)
           out == SimpleOutput(input.max_requests, v.count, v.ttl)
       IN /\ map' = Put(map, input.key, v)
          /\ last' = [NoLast EXCEPT
                        !.op = "request", !.key = input.key,
                        !.decision = from_allowed(allow(v.count, input.max_requests)),
                        !.limit = out.limit, !.remaining = out.remaining,
                        !.reset = out.reset, !.count = v.count,
                        !.path = entry_path(map, input.key, clock), !.now = clock]
          /\ mw' = request_done(mw, from_allowed(allow(v.count, input.max_requests)))
    /\ UNCHANGED <<backend, clock, store, win, gc, hdr, key_prefix, ipk, pair, tokens>>

\* backend.rollback(token).await on the InMemoryBackend
MemMwRollback ==
    /\ mw.pc = "rollback"
    /\ backend = "memory"
    /\ map' = rollback_entry(map, mw.rollback[1])
    /\ mw' = rollback_done(mw, TRUE)
    /\ UNCHANGED <<backend, clock, store, last, win, gc, hdr, key_prefix, ipk, pair, tokens>>

MemMwNext ==
    \/ Tick
    \/ call_input
    \/ MemMwRequest
    \/ \E result \in MwServiceResults : call_service(result)
    \/ MemMwRollback
    \/ call_transform
    \/ error_response

MemMwSpec == MemMwInit /\ [][MemMwNext]_vars

TypeOK ==
    /\ clock \in 0..MaxTime
    /\ backend \in {"memory", "redis", "builder", "panicked", "dropped", "none", "both"}
    /\ DOMAIN map \subseteq Keys
    /\ last.op \in {"none", "request", "rollback", "remove_key"}

\* ------------------------------------------------ HeaderCompatibleOutput
\* here an Instant and a Duration count units of 1 / SubsPerMilli ms
SubsPerMilli == 2
MillisPerSec == 1000

\* Instant::saturating_duration_since
saturating_duration_since(reset, now) == IF reset > now THEN reset - now ELSE 0

\* Duration::as_millis: whole milliseconds, the rest is dropped
as_millis(d) == d \div SubsPerMilli

\* (millis / 1000f64).ceil() as u64
ceil_secs(millis) == (millis + MillisPerSec - 1) \div MillisPerSec

\* SimpleOutput::seconds_until_reset
seconds_until_reset(reset, now) ==
    ceil_secs(as_millis(saturating_duration_since(reset, now)))

\* a SimpleOutput with any reset, read at any now
HeaderInit ==
    /\ backend = "none"
    /\ clock = 0
    /\ map = [x \in {} |-> Value(0, 0)]
    /\ store = [k \in StoredKeys |-> NoKey]
    /\ last = NoLast
    /\ win = [k \in Keys |-> NoWin]
    /\ gc = NoGc
    /\ hdr \in {[NoHdr EXCEPT !.reset = r, !.now = n] :
                  r \in 0..MaxHdrReset, n \in 0..MaxHdrNow}
    /\ NoExt

\* status.seconds_until_reset() is called
HeaderRead ==
    /\ hdr.secs = None
    /\ hdr' = [hdr EXCEPT !.secs = seconds_until_reset(hdr.reset, hdr.now)]
    /\ UNCHANGED <<backend, clock, map, store, last, win, gc, ext>>

HeaderNext == HeaderRead

HeaderSpec == HeaderInit /\ [][HeaderNext]_vars

\* ------------------------------------------------------- steps, by effect
Min(a, b) == IF a <= b THEN a ELSE b

\* the key under which the Redis server holds the bucket of key k
Stored(k) == make_key(key_prefix, k)

\* the bucket of key k exists (for Redis: the key has not expired)
Present(k) ==
    IF backend = "memory" THEN k \in DOMAIN map ELSE Lookup(store[Stored(k)], clock).has

\* the count of the bucket of key k
CountOf(k) == IF backend = "memory" THEN map[k].count ELSE store[Stored(k)].val

\* a call completes in this step: every step sets last but those of the
\* clock, of the sweep task and of the store's lifecycle
CallStep == clock' = clock /\ gc' = gc /\ backend' = backend

\* a request on key k returns a result in this step
RequestStep(k) ==
    CallStep /\ last'.op = "request" /\ last'.err = "none" /\ last'.key = k

MemRequestStep(k) == backend = "memory" /\ RequestStep(k)

RedisRequestStep(k) == backend = "redis" /\ RequestStep(k)

\* a rollback reaches the bucket of key k in this step
RollbackStep(k) ==
    CallStep /\ last'.op = "rollback" /\ last'.key = k /\ Present(k)

\* ----------------------------------------------------------------- claims

\* C1: in the in-memory store the i-th request of a window that no rollback
\* reached observes count = i and is Allowed iff i <= max_requests.
C1_SequentialCounts ==
    (/\ backend = "memory"
     /\ last.op = "request"
     /\ win[last.key].rbs = 0)
    => /\ last.count = win[last.key].reqs
       /\ (last.decision = "Allowed") <=> (win[last.key].reqs <= last.limit)

C1_Witness ==
    /\ backend = "memory"
    /\ last.op = "request" /\ last.limit = 2
    /\ win[last.key].rbs = 0 /\ win[last.key].reqs = 3
    /\ last.count = 3 /\ last.decision = "Denied"

\* C2: in the in-memory store the requests of one window (same max_requests,
\* no rollback), concurrent or not, observe the counts 1..N, each once, and
\* exactly min(N, max_requests) of them are Allowed.
C2_ConcurrentCounts ==
    \A k \in Keys :
        (backend = "memory" /\ k \in DOMAIN map /\ win[k].max_requests >= 0)
        => /\ win[k].counts = 1..win[k].reqs
           /\ win[k].allowed = Min(win[k].reqs, win[k].max_requests)

C2_Witness ==
    /\ backend = "memory"
    /\ win["A"].overlap /\ win["A"].max_requests = 1
    /\ win["A"].reqs = 2 /\ win["A"].counts = {1, 2} /\ win["A"].allowed = 1

\* C3: while every rollback of the window was backed by a request of the
\* window that was not rolled back before, the count of the bucket is the
\* number of requests minus the number of rollbacks, in both backends.
C3_RequestRollbackAtomic ==
    \A k \in Keys :
        (Present(k) /\ win[k].matched) => CountOf(k) = win[k].reqs - win[k].rbs

C3_Witness ==
    /\ backend = "memory"
    /\ last.op = "request" /\ last.undid /\ last.key = "A" /\ last.now < clock
    /\ "A" \in DOMAIN map /\ win["A"].matched
    /\ win["A"].reqs = 3 /\ win["A"].rbs = 2 /\ map["A"].count = 1

\* C4: a request that returns a result returns limit = max_requests and
\* remaining = max_requests - min(max_requests, count) for the count after
\* the increment; remaining <= limit, and remaining = 0 when Denied.
C4_Output ==
    (last.op = "request" /\ last.err = "none")
    => /\ backend = "memory" => last.key \in DOMAIN map
       /\ backend = "redis" => store[Stored(last.key)].has
       /\ last.count = CountOf(last.key)
       /\ win[last.key].max_requests >= 0 => last.limit = win[last.key].max_requests
       /\ last.remaining = last.limit - Min(last.limit, last.count)
       /\ last.remaining >= 0 /\ last.remaining <= last.limit
       /\ last.decision = "Denied" => last.remaining = 0
       /\ last.decision \in {"Allowed", "Denied"}

C4_Witness ==
    /\ backend = "redis"
    /\ last.op = "request" /\ last.err = "none"
    /\ last.decision = "Denied" /\ last.limit = 1 /\ last.count = 3 /\ last.remaining = 0

\* C5: an in-memory request that finds an active bucket (expiry > now) adds
\* exactly 1 to its count and leaves its expiry alone, whatever interval the
\* call carries; every request returns the expiry of the bucket as reset.
C5_ActiveIncrement ==
    [][\A k \in Keys :
        MemRequestStep(k) =>
            /\ last'.reset = map'[k].ttl
            /\ (k \in DOMAIN map /\ map[k].ttl > last'.now)
               => /\ map'[k] = Value(map[k].ttl, map[k].count + 1)
                  /\ last'.reset = map[k].ttl]_vars

C5_Witness ==
    /\ backend = "memory" /\ clock = 0
    /\ last.op = "request" /\ last.path = "incr" /\ last.key = "A"
    /\ last.now = 0
    /\ map["A"] = Value(1, 2) /\ last.reset = 1

\* C6: an in-memory request that finds a bucket with expiry <= now (equal
\* included) replaces it by count = 1, expiry = now + interval and returns
\* reset = now + interval.
C6_ExpiredReplaced ==
    [][\A k \in Keys :
        (/\ MemRequestStep(k)
         /\ k \in DOMAIN map
         /\ map[k].ttl <= last'.now)
        => /\ map'[k] = Value(last'.now + last'.interval, 1)
           /\ last'.reset = last'.now + last'.interval
           /\ last'.count = 1]_vars

C6_Witness ==
    /\ backend = "memory"
    /\ last.op = "request" /\ last.path = "reset" /\ last.key = "A"
    /\ last.hadTtl = last.now /\ last.hadCount = 2
    /\ map["A"] = Value(last.now + last.interval, 1) /\ last.interval > 0

\* the request of this step is made after the window of its key has ended
AfterWindow(k) ==
    \/ /\ MemRequestStep(k)
       /\ k \in DOMAIN map /\ last'.now >= map[k].ttl
    \/ /\ RedisRequestStep(k)
       /\ store[Stored(k)].has /\ clock > store[Stored(k)].exp

\* C7 as stated: the request after the end of the window observes count = 1
\* and is Allowed, for every max_requests.
C7_Original ==
    [][\A k \in Keys :
        AfterWindow(k) => (last'.count = 1 /\ last'.decision = "Allowed")]_vars

\* C7: the request after the end of the window observes count = 1 whatever
\* the old count was, and is Allowed iff max_requests >= 1; the reset that
\* the first request of a Redis window reports is not before the expiry of
\* the key.
C7_ResetAfterWindow ==
    [][\A k \in Keys :
        /\ AfterWindow(k)
           => /\ last'.count = 1
              /\ (last'.decision = "Allowed") <=> (last'.limit >= 1)
        /\ (RedisRequestStep(k) /\ last'.path = "insert")
           => last'.reset >= store'[Stored(k)].exp]_vars

C7_Witness ==
    /\ backend = "memory"
    /\ last.op = "request" /\ last.path = "reset"
    /\ last.hadCount = 3 /\ last.limit = 1
    /\ last.count = 1 /\ last.decision = "Allowed"

\* C8 as stated: a rollback with the token of an earlier window leaves the
\* bucket of the current window as it is.
C8_OldTokenNoEffect ==
    [][\A k \in Keys :
        (RollbackStep(k) /\ last'.kind = "old")
        => /\ backend = "memory" => map'[k] = map[k]
           /\ backend = "redis" => store'[Stored(k)] = store[Stored(k)]]_vars

\* C9: a rollback with the token of the request just before it on the key
\* takes exactly 1 off the count and leaves the expiry alone, and the next
\* request of the window with the same max_requests returns the remaining
\* that the rolled back request returned.
C9_RollbackRestores ==
    [][\A k \in Keys :
        /\ (RollbackStep(k) /\ last'.undid)
           => /\ CountOf(k) >= 1
              /\ backend = "memory" => map'[k] = Value(map[k].ttl, map[k].count - 1)
              /\ backend = "redis" => store'[Stored(k)] = [store[Stored(k)] EXCEPT !.val = store[Stored(k)].val - 1]
        /\ (/\ RequestStep(k) /\ last'.path = "incr"
            /\ last.op = "rollback" /\ last.undid /\ last.key = k
            /\ last'.limit = last.limit)
           => last'.remaining = last.remaining]_vars

C9_Witness ==
    /\ backend = "redis"
    /\ last.op = "request" /\ last.undid /\ last.err = "none"
    /\ last.limit = 2 /\ last.remaining = 1 /\ store["A"].val = 1
    /\ win["A"].reqs = 2 /\ win["A"].rbs = 1

\* C10: the count of a bucket is never negative, and a rollback that finds
\* the count at 0 leaves it at 0.
C10_CountNeverNegative ==
    [][/\ \A k \in DOMAIN map' : map'[k].count >= 0
       /\ \A s \in StoredKeys : store'[s].val >= 0
       /\ \A k \in Keys :
            (RollbackStep(k) /\ CountOf(k) = 0)
            => /\ backend = "memory" => map'[k] = map[k]
               /\ backend = "redis" => store'[Stored(k)] = store[Stored(k)]]_vars

C10_Witness ==
    /\ backend = "memory"
    /\ last.op = "rollback" /\ last.key = "A"
    /\ "A" \in DOMAIN map /\ map["A"].count = 0
    /\ win["A"].reqs = 1 /\ win["A"].rbs = 2
\* a rollback call on key k completes in this step
RollbackCall(k) == CallStep /\ last'.op = "rollback" /\ last'.key = k

\* C11: an in-memory rollback whose key has no bucket in the map leaves the
\* whole map as it is (it creates no bucket) and returns Ok.
C11_RollbackMissingNoop ==
    [][\A k \in Keys :
        (backend = "memory" /\ RollbackCall(k) /\ k \notin DOMAIN map)
        => /\ map' = map
           /\ last'.err = "none"]_vars

C11_Witness ==
    /\ backend = "memory"
    /\ last.op = "rollback" /\ last.key = "A" /\ last.err = "none"
    /\ "A" \notin DOMAIN map /\ win["A"].reqs = 2

\* C12 as stated: an in-memory rollback that finds the bucket in the map
\* with expiry <= now leaves its count and its expiry as they are.
C12_ExpiredRollbackNoop ==
    [][\A k \in Keys :
        (backend = "memory" /\ RollbackStep(k) /\ map[k].ttl <= clock)
        => map'[k] = map[k]]_vars

RetainStep(k) ==
    gc.state = "retain" /\ k \in gc.todo /\ gc'.todo = gc.todo \ {k}

\* a sweep cycle starts in this step
CycleStart == gc.state # "retain" /\ gc'.state = "retain"

\* C14: when the retain of a sweep cycle visits a key, it removes the
\* bucket if expiry <= the now the cycle read and leaves it (count and
\* expiry) if expiry > now, and touches no other key; no step removes a
\* bucket whose window is still active; when the cycle is over no bucket
\* with expiry <= now is left.
C14_SweepRemovesExpired ==
    [][/\ \A k \in Keys :
            RetainStep(k)
            => /\ (k \in DOMAIN map /\ map[k].ttl <= gc.now) => k \notin DOMAIN map'
               /\ (k \in DOMAIN map /\ map[k].ttl > gc.now)
                  => (k \in DOMAIN map' /\ map'[k] = map[k])
               /\ \A j \in Keys \ {k} :
                    /\ (j \in DOMAIN map) <=> (j \in DOMAIN map')
                    /\ j \in DOMAIN map => map'[j] = map[j]
       /\ \A k \in DOMAIN map :
            map[k].ttl > clock => (k \in DOMAIN map' /\ map'[k] = map[k])
       /\ gc'.state = "sleep" => \A k \in DOMAIN map' : map'[k].ttl > gc'.now]_vars

C14_Witness ==
    /\ gc.state = "sleep" /\ gc.now = 1 /\ clock = 1
    /\ gc.removed = {"A"}
    /\ "A" \notin DOMAIN map
    /\ "B" \in DOMAIN map /\ map["B"].ttl = 2

\* C15: the sweep racing with a request on a key whose bucket is expired:
\* the request gives the same map entry, count 1, reset = now + interval
\* and decision whether the sweep had removed the bucket (insert) or the
\* bucket is still there (reset in place); the retain that visits the key
\* afterwards leaves the fresh bucket, whose expiry is after the now the
\* sweep read for as long as its window is active.
C15_SweepRaceSafe ==
    [][\A k \in Keys :
        /\ (MemRequestStep(k) /\ (k \notin DOMAIN map \/ map[k].ttl <= last'.now))
           => /\ map'[k] = Value(last'.now + last'.interval, 1)
              /\ map' = Put(Remove(map, k), k,
                            entry(Remove(map, k), k, last'.now,
                                  last'.now + last'.interval))
              /\ last'.count = 1
              /\ last'.reset = last'.now + last'.interval
              /\ last'.decision = from_allowed(allow(1, last'.limit))
        /\ (/\ RetainStep(k)
            /\ last.op = "request" /\ last.key = k /\ last.path \in {"insert", "reset"}
            /\ k \in DOMAIN map /\ map[k].ttl > clock)
           => (k \in DOMAIN map' /\ map'[k] = map[k])]_vars

C15_Witness ==
    /\ backend = "memory"
    /\ gc.state = "retain" /\ "A" \in gc.todo
    /\ last.op = "request" /\ last.path = "reset" /\ last.key = "A"
    /\ last.now = gc.now + 1 /\ last.hadTtl <= gc.now /\ last.interval = 1
    /\ "A" \in DOMAIN map /\ map["A"] = Value(last.reset, 1)

\* C16: a Builder whose gc_interval is zero never yields a store: build
\* panics, no sweep task exists; a sweep task has a positive period.
C16_ZeroSweepPanics ==
    /\ gc.interval = 0
       => /\ backend \in {"builder", "panicked"}
          /\ ~gc.handle /\ gc.state = "none"
          /\ DOMAIN map = {}
    /\ gc.handle => gc.interval > 0

C16_Witness ==
    backend = "panicked" /\ gc.interval = 0 /\ ~gc.handle /\ clock = 1

\* C17: dropping the store (any clone of it) cancels the sweep task: the
\* task is aborted at once, or at the end of the retain it is running;
\* after a drop no sweep cycle starts, and the aborted task removes nothing.
C17_DropStopsSweep ==
    [][/\ (gc'.dropped /\ gc'.handle)
          => (gc'.state = "aborted" \/ (gc'.state = "retain" /\ gc'.abort))
       /\ gc.dropped => ~CycleStart
       /\ gc.state = "aborted" => (gc'.state = "aborted" /\ map' = map)]_vars

C17_Witness ==
    /\ backend = "dropped" /\ gc.dropped /\ gc.state = "aborted"
    /\ gc.removed = {"A"} /\ gc.now = 0 /\ gc.interval = 1 /\ clock = 2
    /\ "B" \in DOMAIN map /\ map["B"].ttl = 1

\* C18 as stated: every call on the in-memory store returns Ok.
C18_NeverFails == last.err = "none"

\* C19 as stated: seconds_until_reset is the remaining time max(0, reset -
\* now) rounded up to whole seconds: 0 when reset <= now, and waiting that
\* many seconds from now always reaches reset.
C19_SecondsCeil ==
    hdr.secs # None
    => /\ hdr.reset <= hdr.now => hdr.secs = 0
       /\ hdr.secs * MillisPerSec * SubsPerMilli >= hdr.reset - hdr.now
       /\ hdr.reset > hdr.now
          => (hdr.secs - 1) * MillisPerSec * SubsPerMilli < hdr.reset - hdr.now

\* C20: a Redis request on an absent (or expired) key leaves the counter at
\* 1 with the expiry interval.as_secs() seconds ahead; a request on a live
\* key adds exactly 1 and leaves the expiry; while a key lives its expiry
\* never moves and the ttl a request would read never grows.
C20_RedisWindow ==
    [][\A k \in Keys :
        /\ (RedisRequestStep(k) /\ ~Lookup(store[Stored(k)], clock).has)
           => /\ store'[Stored(k)] = [has |-> TRUE, val |-> 1,
                              exp |-> clock + as_secs(last'.interval) * TicksPerSec]
              /\ last'.count = 1
        /\ (RedisRequestStep(k) /\ Lookup(store[Stored(k)], clock).has)
           => /\ store'[Stored(k)] = [store[Stored(k)] EXCEPT !.val = store[Stored(k)].val + 1]
              /\ last'.count = store[Stored(k)].val + 1
        /\ (backend = "redis" /\ Lookup(store[Stored(k)], clock).has /\ store'[Stored(k)].has)
           => /\ store'[Stored(k)].exp = store[Stored(k)].exp
              /\ ttl_cmd(Lookup(store'[Stored(k)], clock'), clock') <= ttl_cmd(store[Stored(k)], clock)]_vars

C20_Witness ==
    /\ backend = "redis" /\ clock = 2
    /\ last.op = "request" /\ last.err = "none" /\ last.path = "incr"
    /\ last.count = 3 /\ last.key = "A"
    /\ store["A"] = [has |-> TRUE, val |-> 3, exp |-> 2]

\* C21: in the Redis backend the requests of one window (same max_requests,
\* no rollback), issued by any number of instances and in flight together
\* or not, observe the counts 1..N, each once, and exactly
\* min(N, max_requests) of them are Allowed; the count the pipeline
\* returned is the value it left in the store.
C21_RedisConcurrentCounts ==
    \A k \in Keys :
        (backend = "redis" /\ Present(k) /\ win[k].max_requests >= 0)
        => /\ win[k].counts = 1..win[k].reqs
           /\ win[k].allowed = Min(win[k].reqs, win[k].max_requests)
           /\ store[Stored(k)].val = win[k].reqs

C21_Witness ==
    /\ backend = "redis" /\ Present("A")
    /\ win["A"].overlap /\ win["A"].max_requests = 2
    /\ win["A"].reqs = 3 /\ win["A"].counts = {1, 2, 3} /\ win["A"].allowed = 2

\* C22: a Redis rollback on a key that does not exist (never created, or
\* expired) returns Ok and leaves the store without the key: no counter, no
\* key without expiry; a request that follows it and returns a result
\* creates the key with count = 1 and the expiry of a first request.
C22_RedisRollbackMissing ==
    [][\A k \in Keys :
        /\ (backend = "redis" /\ RollbackCall(k) /\ ~Present(k))
           => /\ store'[Stored(k)] = NoKey
              /\ last'.err = "none"
        /\ (/\ RedisRequestStep(k) /\ ~Present(k)
            /\ last.op = "rollback" /\ last.key = k)
           => /\ last'.count = 1 /\ last'.path = "insert"
              /\ store'[Stored(k)] = [has |-> TRUE, val |-> 1,
                              exp |-> clock + as_secs(last'.interval) * TicksPerSec]]_vars

C22_Witness ==
    /\ backend = "redis"
    /\ last.op = "rollback" /\ last.key = "A" /\ last.kind = "old" /\ last.err = "none"
    /\ store["A"] = NoKey /\ win["A"].reqs = 2 /\ clock = MaxTime

\* C23: a Redis rollback on a key that exists and has an expiry takes 1
\* from its counter (saturating at 0) and leaves its expiry as it is: the
\* key stays, and the time-to-live a later TTL reads is the one it would
\* have read without the rollback.
C23_RedisRollbackKeepsTtl ==
    [][\A k \in Keys :
        (backend = "redis" /\ RollbackCall(k) /\ Present(k) /\ store[Stored(k)].exp >= 0)
        => /\ store'[Stored(k)].has
           /\ store'[Stored(k)].val = saturating_sub(store[Stored(k)].val, 1)
           /\ store'[Stored(k)].exp = store[Stored(k)].exp
           /\ ttl_cmd(store'[Stored(k)], clock') = ttl_cmd(store[Stored(k)], clock)
           /\ last'.err = "none"]_vars

C23_Witness ==
    /\ backend = "redis"
    /\ last.op = "rollback" /\ last.key = "A" /\ last.undid
    /\ store["A"] = [has |-> TRUE, val |-> 1, exp |-> 2] /\ clock = 1
    /\ win["A"].reqs = 2 /\ win["A"].rbs = 1

\* a Redis request call on key k completes in this step and its caller
\* read the reply of the pipeline
RedisReplyStep(k) ==
    /\ backend = "redis" /\ CallStep
    /\ last'.op = "request" /\ last'.key = k /\ last'.err # "Redis"

\* C24: a Redis request whose pipeline read a negative TTL (-2: the key is
\* gone, -1: it has no expiry) returns Error::NegativeTtl, which is not
\* Error::Redis, and no Decision and no SimpleOutput; a request whose
\* pipeline read a TTL >= 0 returns a Decision.
C24_NegativeTtl ==
    [][\A k \in Keys :
        RedisReplyStep(k)
        => /\ ttl_cmd(store'[Stored(k)], clock) < 0
              => /\ last'.err = "NegativeTtl" /\ last'.err # "Redis"
                 /\ last'.decision = "none"
                 /\ last' = [NoLast EXCEPT !.op = "request", !.key = k,
                                           !.err = "NegativeTtl"]
           /\ ttl_cmd(store'[Stored(k)], clock) >= 0
              => /\ last'.err = "none"
                 /\ last'.decision \in {"Allowed", "Denied"}]_vars

C24_Witness ==
    /\ backend = "redis"
    /\ last.op = "request" /\ last.key = "A" /\ last.err = "NegativeTtl"
    /\ last.decision = "none" /\ ~store["A"].has
    /\ win["A"].reqs = 2 /\ clock = MaxTime

\* the prefix of the backend as a string, empty without one
PrefixText == IF key_prefix = <<>> THEN "" ELSE key_prefix[1]

\* C25: request, rollback and remove_key on the caller's key k act on the
\* stored key prefix ++ k and leave every other stored key as it is: a
\* request that returns a result leaves prefix ++ k in the store holding
\* the count it returned, remove_key leaves the store without prefix ++ k,
\* a rollback takes 1 from the counter of a live prefix ++ k.
C25_KeyPrefix ==
    [][\A k \in Keys :
        (backend = "redis" /\ CallStep /\ last'.key = k)
        => /\ \A s \in StoredKeys \ {PrefixText \o k} : store'[s] = store[s]
           /\ (last'.op = "request" /\ last'.err = "none")
              => /\ store'[PrefixText \o k].has
                 /\ store'[PrefixText \o k].val = last'.count
                 /\ last'.count = Lookup(store[PrefixText \o k], clock).val + 1
           /\ last'.op = "remove_key" => ~store'[PrefixText \o k].has
           /\ (last'.op = "rollback" /\ Lookup(store[PrefixText \o k], clock).has)
              => store'[PrefixText \o k] =
                    [store[PrefixText \o k] EXCEPT
                        !.val = saturating_sub(store[PrefixText \o k].val, 1)]]_vars

C25_Witness ==
    /\ backend = "redis" /\ key_prefix = <<"p:">>
    /\ last.op = "remove_key" /\ last.key = "A" /\ last.hadCount = 2
    /\ ~store["p:A"].has /\ store["A"].has /\ store["p:B"].has
    /\ win["A"].reqs = 1 /\ clock = 1

\* ip_key returned a key for argument i, an IPv6 address that it did not
\* render as an IPv4 address
KeyedV6(i) ==
    /\ ipk.res[i].tag = "Ok"
    /\ ipk.arg[i].addr.kind = "V6"
    /\ to_ipv4(ipk.arg[i].addr.segments) = <<>>

\* C26: two IPv6 addresses with the same upper 64 bits that ip_key does not
\* render as IPv4 addresses get the same key, however they are written:
\* the text of their /64 network (lower 64 bits zero) followed by "/64";
\* every address of 2a00:1450:4009:81f::/64 gets "2a00:1450:4009:81f::/64".
C26_SameSubnetSameKey ==
    /\ (/\ KeyedV6(1) /\ KeyedV6(2)
        /\ SubSeq(ipk.arg[1].addr.segments, 1, 4) = SubSeq(ipk.arg[2].addr.segments, 1, 4))
       => ipk.res[1] = ipk.res[2]
    /\ \A i \in 1..2 :
        KeyedV6(i)
        => /\ ipk.res[i].val =
                Str(fmt_v6(SubSeq(ipk.arg[i].addr.segments, 1, 4) \o <<0, 0, 0, 0>>)) \o "/64"
           /\ SubSeq(ipk.arg[i].addr.segments, 1, 4) = <<10752, 5200, 16393, 2079>>
              => ipk.res[i].val = "2a00:1450:4009:81f::/64"

C26_Witness ==
    /\ ipk.arg[1].addr.segments = <<10752, 5200, 16393, 2079, 0, 0, 0, 8206>>
    /\ ipk.arg[2].addr.segments = <<10752, 5200, 16393, 2079, 1, 0, 0, 1>>
    /\ Str(ipk.arg[1].ip_str) = "2a00:1450:4009:81f::200e"
    /\ Str(ipk.arg[2].ip_str) = "2A00:1450:4009:81F:1::1"
    /\ ipk.res[1] = Ok("2a00:1450:4009:81f::/64")
    /\ ipk.res[2] = Ok("2a00:1450:4009:81f::/64")

\* C27 as stated: ip_key renders an address in dotted-decimal form exactly
\* when it is an IPv4 address or an IPv4-mapped IPv6 address ::ffff:a.b.c.d,
\* and every other IPv6 address as its /64 network.
C27_DottedIffV4OrMapped ==
    \A i \in 1..2 :
        ipk.res[i].tag = "Ok"
        => LET a == ipk.arg[i].addr
               mapped == a.kind = "V6" /\ to_ipv4_mapped(a.segments) # <<>>
           IN /\ a.kind = "V4" => ipk.res[i].val = Str(fmt_v4(a.octets))
              /\ mapped => ipk.res[i].val = Str(fmt_v4(to_ipv4_mapped(a.segments)))
              /\ (a.kind = "V6" /\ ~mapped)
                 => ipk.res[i].val =
                        Str(fmt_v6(SubSeq(a.segments, 1, 4) \o <<0, 0, 0, 0>>)) \o "/64"

\* the key of the SimpleInput that the request of mw is to get: the
\* components the builder asks for, the addresses as their ip_key
MwIpKey(t) ==
    IF Str(t) = "142.250.187.206" THEN "142.250.187.206"
    ELSE IF Str(t) = "2a00:1450:4009:81f::200e" THEN "2a00:1450:4009:81f::/64"
    ELSE IF Str(t) = "10.0.0.7" THEN "10.0.0.7"
    ELSE "?"

MwKey ==
    JoinStr(mw.builder.custom_key
              \o (IF mw.builder.real_ip_key THEN <<MwIpKey(mw.req.realip)>> ELSE <<>>)
              \o (IF mw.builder.peer_ip_key THEN <<MwIpKey(mw.req.peer)>> ELSE <<>>)
              \o (IF mw.builder.path_key THEN <<mw.req.path>> ELSE <<>>),
            "-")

\* C28: when the key is to hold the client address and the address is
\* malformed, the input function returns the InvalidIpError, the call
\* returns it, and neither the backend nor the service is called; a
\* SimpleInput is only made with a key that holds every component asked
\* for, the address as its ip_key, and the backend is only called with one.
C28_MalformedAddressFails ==
    /\ (mw.pc \notin {"none", "input"} /\ mw.builder.real_ip_key
        /\ mw.req.realip \in MwMalformed)
       => /\ mw.pc = "done"
          /\ mw.input = Err("InvalidIpError")
          /\ mw.response = Response("error", 500, "InvalidIpError")
          /\ mw.requests = 0 /\ mw.services = 0 /\ mw.rollbacks = 0
    /\ (mw.pc # "none" /\ mw.input.tag = "Ok")
       => /\ mw.builder.real_ip_key => mw.req.realip \in MwAddresses
          /\ mw.input.val.key = MwKey
    /\ (mw.pc # "none" /\ mw.requests > 0) => mw.input.tag = "Ok"

C28_Witness ==
    /\ mw.pc = "done" /\ mw.builder.real_ip_key /\ mw.builder.path_key
    /\ mw.builder.custom_key = <<"api">>
    /\ Str(mw.req.realip) = "142.250.187.206:443"
    /\ mw.input = Err("InvalidIpError") /\ mw.requests = 0
    /\ mw.response.kind = "error" /\ mw.fail_open

\* the call is past service.call(req).await
MwServed == mw.pc \in {"rollback", "transform", "done", "rendered"}

\* C29: a request the backend denied never reaches the wrapped service and
\* the call returns the response of denied_response (status 429 unless
\* another one was configured); a request the backend allowed reaches the
\* service exactly once.
C29_DeniedNotServed ==
    /\ (mw.pc # "none" /\ mw.decision = "Denied")
       => /\ mw.services = 0 /\ mw.pc = "done"
          /\ mw.response = Response("denied", mw.denied_status, "")
          /\ mw.denied_status = DefaultDenied => mw.response.status = 429
    /\ (mw.pc # "none" /\ mw.decision = "Allowed")
       => /\ mw.pc \in {"service"} \cup {"rollback", "transform", "done", "rendered"}
          /\ mw.services = (IF MwServed THEN 1 ELSE 0)
          /\ mw.pc \in {"done", "rendered"} => mw.response.kind \in {"service", "error"}

C29_Witness ==
    /\ mw.pc = "done" /\ mw.decision = "Denied" /\ mw.requests = 1 /\ mw.services = 0
    /\ mw.denied_status = DefaultDenied /\ mw.response = Response("denied", 429, "")
    /\ mw.fail_open /\ mw.transformation

\* C30: when backend.request returns an error, a middleware with fail_open
\* false returns the error of the backend and never calls the service; one
\* with fail_open true calls the service (once), never calls
\* backend.rollback, whatever the rollback condition says of the response,
\* and gives allowed_transformation None as the output (and rolled_back
\* false).
C30_FailOpen ==
    (mw.pc # "none" /\ mw.decision = "Err")
    => /\ mw.fail_open = DefaultFailOpen
          => /\ ~mw.fail_open /\ mw.pc = "done" /\ mw.services = 0
             /\ mw.response = Response("error", 500, "backend")
             /\ mw.transformed = <<>>
       /\ mw.fail_open # DefaultFailOpen
          => /\ mw.fail_open /\ mw.pc \in {"service", "transform", "done", "rendered"}
             /\ mw.services = (IF MwServed THEN 1 ELSE 0)
             /\ mw.rollbacks = 0 /\ mw.rollback = <<>> /\ ~mw.rolled_back
             /\ \A i \in 1..Len(mw.transformed) :
                    mw.transformed[i] = [output |-> <<>>, rolled_back |-> FALSE]
             /\ (mw.pc = "done" /\ mw.transformation /\ mw.service_response.tag = "Ok")
                => Len(mw.transformed) = 1
             /\ mw.pc \in {"done", "rendered"} => mw.response.error # "backend"

C30_Witness ==
    /\ mw.pc = "done" /\ mw.decision = "Err" /\ mw.fail_open
    /\ mw.services = 1 /\ mw.rollbacks = 0
    /\ mw.rollback_condition = <<{ServiceOk(500)}>> /\ mw.service_response = ServiceOk(500)
    /\ mw.transformed = <<[output |-> <<>>, rolled_back |-> FALSE]>>
    /\ mw.response = Response("service", 500, "")

\* the bucket of the request in the middleware
MwBucket == map[mw.rollback[1]]

\* C31: backend.rollback is called for a request only when the backend
\* allowed it, a rollback condition is configured and holds of the outcome
\* of the service; at most once, after service.call has returned, never for
\* a denied request.  With rollback_server_errors, once the call is past
\* its rollback block a 5xx outcome has left the count of the bucket at the
\* value from before the request (one less than the request made it) and a
\* 2xx response has left it incremented.
C31_RollbackProtocol ==
    [][/\ mw'.rollbacks # mw.rollbacks
          => /\ mw.decision = "Allowed"
             /\ mw.rollback_condition # <<>>
             /\ mw.service_response \in mw.rollback_condition[1]
             /\ mw.services = 1 /\ mw.service_response # NoService
             /\ mw.rollbacks = 0 /\ mw'.rollbacks = 1
       /\ mw'.decision = "Denied" => mw'.rollbacks = 0 /\ mw'.pc # "rollback"
       /\ (/\ mw'.rollback_condition = rollback_server_errors
           /\ mw'.decision = "Allowed"
           /\ mw'.pc \in {"transform", "done", "rendered"})
          => /\ mw'.service_response.status \in 500..599
                => MwBucket'.count = last'.count - 1 /\ mw'.rollbacks = 1
             /\ mw'.service_response.status \in 200..299
                => MwBucket'.count = last'.count /\ mw'.rollbacks = 0
      ]_vars

C31_Witness ==
    /\ mw.pc = "done" /\ mw.decision = "Allowed"
    /\ mw.rollback_condition = rollback_server_errors
    /\ mw.service_response = ServiceOk(500)
    /\ mw.rollbacks = 1 /\ mw.services = 1
    /\ last.path = "incr" /\ last.count = 1 /\ MwBucket.count = 0
    /\ clock > last.now

\* backend.rollback returned an error to this call
MwRollbackFailed ==
    /\ mw.pc # "none"
    /\ mw.logged # <<>>
    /\ mw.logged[Len(mw.logged)] = "error: unable to rollback"

\* C32: when backend.rollback returns an error the call goes on to return
\* what the service returned, its response or its error, with the status
\* the service gave it; the failure is a log line and nothing else.
C32_RollbackFailureLogged ==
    MwRollbackFailed
    => /\ mw.decision = "Allowed" /\ mw.services = 1 /\ mw.rollbacks = 1
       /\ mw.pc \in {"transform", "done", "rendered"}
       /\ mw.pc = "transform" => mw.response = NoResponse
       /\ mw.pc \in {"done", "rendered"}
          => /\ mw.response.status = mw.service_response.status
             /\ mw.service_response.tag = "Ok"
                => mw.response = Response("service", mw.service_response.status, "")
             /\ mw.service_response.tag = "Err"
                => /\ mw.response.kind = "error"
                   /\ mw.response.error \in {"service", "TransformedError"}

C32_Witness ==
    /\ MwRollbackFailed /\ mw.pc = "done"
    /\ mw.service_response = ServiceOk(500)
    /\ mw.response = Response("service", 500, "")
    /\ mw.logged = <<"error: unable to rollback">>

\* C33: an in-memory request runs one of three paths and no second one: on
\* a missing key it inserts a bucket of count 1, on an expired bucket that
\* is still in the map it resets the count to exactly 1, on an active bucket
\* of count c it makes the count exactly c + 1; the count it reports is the
\* count it left.
C33_OnePath ==
    [][\A k \in Keys :
        MemRequestStep(k) =>
            /\ last'.count = map'[k].count
            /\ k \notin DOMAIN map
               => last'.path = "insert" /\ map'[k].count = 1
            /\ (k \in DOMAIN map /\ map[k].ttl <= last'.now)
               => last'.path = "reset" /\ map'[k].count = 1
            /\ (k \in DOMAIN map /\ map[k].ttl > last'.now)
               => last'.path = "incr" /\ map'[k].count = map[k].count + 1]_vars

C33_Witness ==
    /\ backend = "memory"
    /\ last.op = "request" /\ last.path = "reset" /\ last.key = "A"
    /\ last.hadCount = 3 /\ last.hadTtl < last.now
    /\ last.count = 1 /\ map["A"].count = 1 /\ map["A"].ttl > clock

\* a remove_key on key k completes in this step
RemoveKeyStep(k) == CallStep /\ last'.op = "remove_key" /\ last'.key = k

\* C34: a bucket leaves the map of the in-memory store only in a remove_key
\* on its key or when the retain of a sweep cycle visits it; no request and
\* no rollback removes a bucket; in a store built with gc_interval None a
\* bucket, expired or not, is in the map until a remove_key on its key, and
\* a request that finds it expired resets it in place.
C34_BucketLeaves ==
    [][\A k \in Keys :
        /\ (k \in DOMAIN map /\ k \notin DOMAIN map')
           => \/ RemoveKeyStep(k)
              \/ gc.interval # None /\ RetainStep(k)
        /\ (CallStep /\ last'.op \in {"request", "rollback"} /\ k \in DOMAIN map)
           => k \in DOMAIN map'
        /\ (gc.interval = None /\ k \in DOMAIN map /\ map[k].ttl <= clock)
           => \/ RemoveKeyStep(k) /\ k \notin DOMAIN map'
              \/ /\ k \in DOMAIN map'
                 /\ MemRequestStep(k) => last'.path = "reset"
                 /\ ~MemRequestStep(k) => map'[k].ttl = map[k].ttl]_vars

C34_Witness ==
    /\ backend = "memory" /\ gc.interval = None
    /\ "A" \in DOMAIN map /\ map["A"].ttl + 1 < clock /\ map["A"].count = 0
    /\ last.op = "rollback" /\ last.key = "A"

\* a request, a rollback or a remove_key on key k completes in this step
KeyStep(k) ==
    CallStep /\ last'.op \in {"request", "rollback", "remove_key"} /\ last'.key = k

\* C35: a request, a rollback or a remove_key on one key of the in-memory
\* store leaves the bucket of every other key as it was: in the map or not,
\* its count and its expiry, whatever calls on the other key came before.
C35_PerKey ==
    [][\A a \in Keys :
        KeyStep(a)
        => \A b \in Keys \ {a} :
              /\ (b \in DOMAIN map) <=> (b \in DOMAIN map')
              /\ b \in DOMAIN map => map'[b] = map[b]]_vars

C35_Witness ==
    /\ last.op = "rollback" /\ last.key = "A"
    /\ win["A"].reqs = 2 /\ win["A"].rbs = 1 /\ win["B"].reqs = 3 /\ win["B"].rbs = 1
    /\ "A" \in DOMAIN map /\ "B" \in DOMAIN map
    /\ map["A"] = Value(1, 1) /\ map["B"] = Value(1, 2)

\* backend.rollback was called in this call and returned Ok
MwRollbackOk ==
    /\ mw.rollbacks = 1
    /\ \A i \in 1..Len(mw.logged) : mw.logged[i] # "error: unable to rollback"

\* C36: allowed_transformation gets rolled_back = true exactly when
\* backend.rollback was called for the request and returned Ok: false
\* without a rollback condition, when the condition did not hold, when the
\* backend failed and the call went on (fail_open), and when the rollback
\* failed.  The transformation is applied once to the response of the
\* service, and once to the error response of a service error, which keeps
\* the status of the error.
C36_RolledBackFlag ==
    mw.pc # "none"
    => /\ \A i \in 1..Len(mw.transformed) :
            /\ mw.transformed[i].rolled_back <=> MwRollbackOk
            /\ mw.rollback_condition = <<>> => ~mw.transformed[i].rolled_back
            /\ (/\ mw.rollback_condition # <<>>
                /\ mw.service_response \notin mw.rollback_condition[1])
               => ~mw.transformed[i].rolled_back
            /\ mw.decision = "Err" => ~mw.transformed[i].rolled_back
            /\ MwRollbackFailed => ~mw.transformed[i].rolled_back
       /\ (mw.transformation /\ mw.service_response.tag = "Ok"
           /\ mw.pc = "done")
          => /\ Len(mw.transformed) = 1
             /\ mw.response = Response("service", mw.service_response.status, "")
       /\ (mw.transformation /\ mw.service_response.tag = "Err"
           /\ mw.pc \in {"done", "rendered"})
          => /\ mw.response =
                  Response("error", mw.service_response.status, "TransformedError")
             /\ Len(mw.transformed) = (IF mw.pc = "rendered" THEN 1 ELSE 0)
       /\ ~mw.transformation => mw.transformed = <<>>

C36_Witness ==
    /\ mw.pc = "rendered" /\ mw.transformation
    /\ mw.service_response = ServiceErr(500)
    /\ MwRollbackFailed /\ mw.rollbacks = 1
    /\ mw.transformed = <<[output |-> <<"output">>, rolled_back |-> FALSE]>>
    /\ mw.response = Response("error", 500, "TransformedError")

\* C37 as stated: for one sequence of request, rollback and remove_key calls
\* on a key, made on an InMemoryBackend and on a RedisBackend at the same
\* whole-second times with intervals of whole seconds, every request gets
\* the same Decision and the same remaining from both.
C37_SameContract ==
    pair.op = "request" => pair.mem = pair.redis

\* C38 as stated: in every window of a key the number of requests that were
\* Allowed and not rolled back is at most max_requests, when every token is
\* given to rollback at most once, at any time, also after its window.
C38_LimitUnderRollback ==
    \A w \in 1..Len(tokens.held) : tokens.held[w] <= tokens.max_requests

\* C39 as stated: the sweep task of a store built with a gc interval runs
\* as long as one clone of the store is alive: its cancellation is neither
\* done nor requested while gc.clones >= 1, so that it goes on removing
\* the expired buckets after a clone was dropped.
C39_SweepSurvivesDrop ==
    (backend = "memory" /\ gc.handle /\ gc.clones >= 1)
    => (gc.state # "aborted" /\ ~gc.abort)

\* C40 as stated: on a server that only RedisBackend values write, no
\* request with an interval greater than zero returns Error::NegativeTtl.
C40_NeverNegativeTtl ==
    (backend = "redis" /\ last.op = "request") => last.err # "NegativeTtl"
====
